---- MODULE Spec2Model ----
(***************************************************************************)
(* A model of the inventory-export server (src/server.js, lines 1-686):    *)
(* the paginated catalog and orders fetches, snapshot creation into the    *)
(* file store and the indexed (Mongo) store, and the report request that   *)
(* joins catalog rows, the sales aggregate and a start snapshot.           *)
(*                                                                         *)
(* JavaScript runs each handler to its next await without interleaving,    *)
(* so one action is one such run: from the event that resumes the handler  *)
(* (a request arriving, a remote response, a database reply) to the next   *)
(* await or to the response.                                               *)
(***************************************************************************)
EXTENDS Integers, Sequences, FiniteSets, TLC

VARIABLES
  catalog,      \* the remote's product pages (what products(after: cursor) serves)
  orders,       \* the remote's order pages for the report window
  mongoUri,     \* MONGODB_URI is configured
  mongoClient,  \* number of MongoClient objects created so far (0: mongoClient = null)
  mongoDb,      \* the module-level mongoDb handle is set
  invCol,       \* collection snapshots_inventory: _id -> document
  metaCol,      \* collection snapshots_meta: label -> document
  files,        \* SNAPSHOT_DIR: path -> file text (the JSON members in order)
  exports,      \* EXPORT_DIR: base name -> what writeCSV / writeXML wrote
  now,          \* the clock new Date() reads
  req,          \* per request: the handler's locals, position and response
  inv,          \* per request: the locals of its fetchAllProductsAndInventory call
  ord,          \* per request: the locals of its fetchUnitsSold call
  lastSnap,     \* history: what the last createSnapshot that returned left behind
  lastFail,     \* history: the last createSnapshot that failed while storing,
                \* and whether the call after it succeeded on the same scan
  env           \* the surroundings: whether the disk takes writes, whether the
                \* database server answers

vars == <<catalog, orders, mongoUri, mongoClient, mongoDb, invCol, metaCol,
          files, exports, now, req, inv, ord, lastSnap, lastFail, env>>

-----------------------------------------------------------------------------
(* JavaScript values.  A value that may be null or undefined is a tuple of  *)
(* length at most one: <<>> is null/undefined, <<v>> is the value v.        *)

None == <<>>
Some(v) == <<v>>

\* x || d for a string-valued x: null, undefined and "" are falsy.
OrStr(x, d) == IF x = None \/ x = Some("") THEN d ELSE x[1]

\* x || d and x ?? d for a number-valued x.
OrNum(x, d) == IF x = None \/ x = Some(0) THEN d ELSE x[1]
NullishNum(x, d) == IF x = None THEN d ELSE x[1]

\* `${x}` and property-key conversion of a string or null.
ToStr(x) == IF x = None THEN "null" ELSE x[1]

Range(s) == {s[i] : i \in DOMAIN s}

RECURSIVE SumSeq(_)
SumSeq(s) == IF s = <<>> THEN 0 ELSE s[1] + SumSeq(Tail(s))

RECURSIVE Concat(_)
Concat(ss) == IF ss = <<>> THEN <<>> ELSE ss[1] \o Concat(Tail(ss))

RECURSIVE SeqsUpTo(_, _)
SeqsUpTo(S, n) ==
  IF n = 0 THEN {<<>>}
  ELSE LET shorter == SeqsUpTo(S, n - 1)
       IN  shorter \cup {Append(s, x) : s \in shorter, x \in S}

(* A JavaScript Map: its entries <<key, value>> in insertion order.        *)
MapHas(m, k) == \E i \in DOMAIN m : m[i][1] = k
MapIndex(m, k) == CHOOSE i \in DOMAIN m : m[i][1] = k
MapGet(m, k) == IF MapHas(m, k) THEN Some(m[MapIndex(m, k)][2]) ELSE None
MapSet(m, k, v) ==
  IF MapHas(m, k) THEN [m EXCEPT ![MapIndex(m, k)] = <<k, v>>]
  ELSE Append(m, <<k, v>>)
MapSize(m) == Len(m)
MapKeys(m) == {m[i][1] : i \in DOMAIN m}

(* A JavaScript object with string keys (no integer-like keys occur, so    *)
(* own-property order is insertion order): again entries <<key, value>>.   *)
ObjHas(o, k) == MapHas(o, k)
ObjGet(o, k) == MapGet(o, k)
ObjSet(o, k, v) == MapSet(o, k, v)
ObjKeys(o) == MapKeys(o)

\* Object.fromEntries(map.entries()): each key becomes a property name.
RECURSIVE ObjectFromEntries(_)
ObjectFromEntries(m) ==
  IF m = <<>> THEN <<>>
  ELSE LET init == ObjectFromEntries(SubSeq(m, 1, Len(m) - 1))
           e == m[Len(m)]
       IN  ObjSet(init, ToStr(e[1]), e[2])

\* JSON.stringify(obj, null, 2): the members in own-property order; and
\* JSON.parse of such a text: the object with those members (a repeated
\* name keeps its first position and its last value).
JSONStringify(o) == [i \in DOMAIN o |-> [name |-> o[i][1], value |-> o[i][2]]]
RECURSIVE JSONParse(_)
JSONParse(t) ==
  IF t = <<>> THEN <<>>
  ELSE LET init == JSONParse(SubSeq(t, 1, Len(t) - 1))
           mem == t[Len(t)]
       IN  ObjSet(init, mem.name, mem.value)

-----------------------------------------------------------------------------
(* The remote.  A connection is served in pages; each page carries its     *)
(* edges and pageInfo { hasNextPage endCursor }.  Cursors are opaque to    *)
(* the program; the remote here numbers them: the page after cursor k is   *)
(* page k + 1, and no cursor (null) asks for page 1.                       *)

MkPages(edgeLists) ==
  [k \in 1..Len(edgeLists) |->
     [edges |-> edgeLists[k],
      pageInfo |-> [hasNextPage |-> k < Len(edgeLists), endCursor |-> Some(k)]]]

\* A remote whose last page still reports hasNextPage = true, with the
\* cursor `back`: null, or a cursor it has handed out before.
LoopPages(edgeLists, back) ==
  [k \in 1..Len(edgeLists) |->
     [edges |-> edgeLists[k],
      pageInfo |-> [hasNextPage |-> TRUE,
                    endCursor |-> IF k < Len(edgeLists) THEN Some(k) ELSE back]]]

EmptyPage == [edges |-> <<>>, pageInfo |-> [hasNextPage |-> FALSE, endCursor |-> None]]

PageAt(pages, cursor) ==
  LET k == IF cursor = None THEN 1 ELSE cursor[1] + 1
  IN  IF k \in DOMAIN pages THEN pages[k] ELSE EmptyPage

\* How a page request can end (shopifyGraphQL): a success status with data,
\* a non-success status, an errors list, a success status with a body that
\* holds no data, or the transport failing.
RespKinds == {"data", "http", "errors", "nodata", "network"}

(* Catalog samples.                                                        *)
Qty(name, q) == [name |-> name, quantity |-> q]
Level(qs) == [node |-> [quantities |-> Some(qs)]]
Avail(n) == Level(<<Qty("available", Some(n))>>)
Item(tracked, cost, levels) ==
  Some([tracked |-> tracked, unitCost |-> cost, inventoryLevels |-> levels])
Cost(a, c) == Some([amount |-> a, currencyCode |-> c])
Variant(id, sku, item) == [id |-> id, sku |-> sku, inventoryItem |-> item]
Product(id, title, vendor, date, num, variants) ==
  [id |-> id, title |-> title, vendor |-> vendor,
   vendorInvoiceDate |-> date, vendorInvoiceNumber |-> num,
   variants |-> variants]

\* tracked, three locations: available 3, 5 and 0
V1 == Variant(Some("gid1"), Some("A"),
        Item(Some(TRUE), Cost("9.50", "EUR"), Some(<<Avail(3), Avail(5), Avail(0)>>)))
\* tracked: "available" after another name, a level without "available",
\* a level whose quantity is null, a level without a quantities list
V2 == Variant(Some("gid2"), Some("B"),
        Item(Some(TRUE), None,
             Some(<<Level(<<Qty("on_hand", Some(7)), Qty("available", Some(2))>>),
                    Level(<<Qty("on_hand", Some(4))>>),
                    Level(<<Qty("available", None)>>),
                    [node |-> [quantities |-> None]]>>)))
\* tracked = false, shares its sku with V1
V3 == Variant(Some("gid3"), Some("A"),
        Item(Some(FALSE), Cost("1.00", "EUR"), Some(<<Avail(4)>>)))
\* tracked, no id, no inventory levels
V4 == Variant(None, Some("C"), Item(Some(TRUE), None, None))
\* no inventory item at all
V5 == Variant(Some("gid5"), None, None)
\* tracked is missing
V6 == Variant(Some("gid6"), Some("D"), Item(None, None, Some(<<Avail(1)>>)))
\* tracked, neither id nor sku
V7 == Variant(None, None, Item(Some(TRUE), None, Some(<<Avail(2)>>)))
\* gid1 at a later time, oversold: the quantities add up to -3
V1b == Variant(Some("gid1"), Some("A"),
        Item(Some(TRUE), Cost("9.50", "EUR"), Some(<<Avail(1), Avail(-4)>>)))

P1 == Product("p1", "Shirt", "Acme", Some([value |-> "2024-05-01"]), None, <<V1, V3>>)
P2 == Product("p2", "Hat", "Bolt", None, Some([value |-> "INV-7"]), <<V2>>)
P3 == Product("p3", "Sock", "Acme", None, None, <<V4, V5, V7>>)
P4 == Product("p4", "Shirt", "Acme", Some([value |-> ""]), None, <<V6, V1b>>)

EdgesA == <<P1, P2>>
EdgesB == <<P3>>
EdgesC == <<>>
EdgesD == <<P4>>
ProductEdgeSamples == {EdgesA, EdgesB, EdgesC, EdgesD}
\* gid1 out of stock: a catalog earlier snapshots were taken of
EdgesZ ==
  <<Product("p1", "Shirt", "Acme", None, None,
            <<Variant(Some("gid1"), Some("A"), Item(Some(TRUE), None, Some(<<Avail(0)>>)))>>)>>

(* Order samples.                                                          *)
LineItem(variantId, sku, quantity) ==
  [variant |-> IF variantId = None THEN None ELSE Some([id |-> variantId[1]]),
   sku |-> sku, quantity |-> quantity]
Order(lines) == [lineItems |-> lines]

L1 == LineItem(Some("gid1"), Some("A"), Some(2))
L2 == LineItem(None, Some("C"), Some(1))          \* variant deleted, sku kept
L3 == LineItem(None, None, Some(5))               \* neither: dropped
L4 == LineItem(Some("gid1"), Some("A"), None)     \* quantity missing
L5 == LineItem(Some("gid3"), Some("A"), Some(4))  \* an untracked variant sold
L6 == LineItem(None, Some("A"), Some(3))          \* sku only, sku of gid1 and gid3
L7 == LineItem(Some("gid2"), Some("B"), Some(1))
L8 == LineItem(None, Some(""), Some(2))           \* empty sku: dropped

OrdersA == <<Order(<<L1, L2>>), Order(<<L3>>)>>
OrdersB == <<Order(<<L6, L5>>), Order(<<L4, L1>>)>>
OrdersC == <<>>
OrdersD == <<Order(<<L1, L7, L8>>), Order(<<>>)>>
OrderEdgeSamples == {OrdersA, OrdersB, OrdersC, OrdersD}

\* Bounds of the remote: how many pages a connection has.
MaxPages == 2

Catalogs == {MkPages(e) : e \in SeqsUpTo(ProductEdgeSamples, MaxPages) \ {<<>>}}
OrderBooks == {MkPages(e) : e \in SeqsUpTo(OrderEdgeSamples, MaxPages) \ {<<>>}}

-----------------------------------------------------------------------------
(* fetchAllProductsAndInventory: what one page adds to rows.               *)

IsTracked(v) ==
  /\ v.inventoryItem # None
  /\ v.inventoryItem[1].tracked = Some(TRUE)

\* qList.find(q => q.name === 'available')
FindAvailable(qList) ==
  IF \E i \in DOMAIN qList : qList[i].name = "available"
  THEN Some(qList[CHOOSE i \in DOMAIN qList :
                    /\ qList[i].name = "available"
                    /\ \A j \in 1..(i - 1) : qList[j].name # "available"])
  ELSE None

\* LevelAvailable taking the first quantity listed, whatever its name.
LevelAvailableFirst(lev) ==
  LET qList == IF lev.node.quantities = None THEN <<>> ELSE lev.node.quantities[1]
  IN  IF qList = <<>> THEN 0 ELSE NullishNum(qList[1].quantity, 0)

\* One level's term of the reduce: avail?.quantity ?? 0
LevelAvailable(lev) ==
  LET qList == IF lev.node.quantities = None THEN <<>> ELSE lev.node.quantities[1]
      avail == FindAvailable(qList)
  IN  IF avail = None THEN 0 ELSE NullishNum(avail[1].quantity, 0)

EndingQty(v) ==
  LET levels == IF v.inventoryItem = None \/ v.inventoryItem[1].inventoryLevels = None
                THEN <<>> ELSE v.inventoryItem[1].inventoryLevels[1]
  IN  SumSeq([i \in DOMAIN levels |-> LevelAvailable(levels[i])])

MetafieldValue(m) == IF m = None \/ m[1].value = "" THEN None ELSE Some(m[1].value)

VariantRecord(p, v) ==
  LET cost == IF v.inventoryItem = None THEN None ELSE v.inventoryItem[1].unitCost
  IN  [productId |-> p.id,
       productTitle |-> p.title,
       productVendor |-> p.vendor,
       vendorInvoiceDate |-> MetafieldValue(p.vendorInvoiceDate),
       vendorInvoiceNumber |-> MetafieldValue(p.vendorInvoiceNumber),
       variantId |-> v.id,
       variantSku |-> v.sku,
       unitCost |-> IF cost = None THEN None ELSE Some(cost[1].amount),
       unitCostCurrency |-> IF cost = None THEN None ELSE Some(cost[1].currencyCode),
       endingQty |-> EndingQty(v)]

\* The filter letting through every variant not reported as tracked = false.
NotUntracked(v) == v.inventoryItem = None \/ v.inventoryItem[1].tracked # Some(FALSE)
TrackedFilterLoose(variants) == SelectSeq(variants, NotUntracked)

\* Line 343: the variants that pass `tracked !== true` -> continue.
TrackedFilter(variants) == SelectSeq(variants, IsTracked)

ProductRows(p) ==
  LET tracked == TrackedFilter(p.variants)
  IN  [i \in DOMAIN tracked |-> VariantRecord(p, tracked[i])]

PageRows(edges) == Concat([i \in DOMAIN edges |-> ProductRows(edges[i])])

(* fetchUnitsSold: what one page adds to byVariant.                        *)

\* li.variant?.id || (li.sku ? `SKU:${li.sku}` : null)
LineKey(li) ==
  IF li.variant # None /\ li.variant[1].id # ""
  THEN Some(li.variant[1].id)
  ELSE IF li.sku # None /\ li.sku # Some("") THEN Some("SKU:" \o li.sku[1]) ELSE None

\* FoldLine keeping the last quantity of a key instead of the sum.
FoldLineOverwrite(byVariant, li) ==
  IF LineKey(li) = None THEN byVariant
  ELSE MapSet(byVariant, LineKey(li)[1], OrNum(li.quantity, 0))

\* Lines 399-401: one line item added under its key.
FoldLine(byVariant, li) ==
  LET vId == LineKey(li)
  IN  IF vId = None THEN byVariant
      ELSE MapSet(byVariant, vId[1],
                  OrNum(MapGet(byVariant, vId[1]), 0) + OrNum(li.quantity, 0))

RECURSIVE FoldLines(_, _)
FoldLines(byVariant, lines) ==
  IF lines = <<>> THEN byVariant
  ELSE FoldLines(FoldLine(byVariant, lines[1]), Tail(lines))

AllLines(edges) == Concat([i \in DOMAIN edges |-> edges[i].lineItems])

PageSales(byVariant, edges) == FoldLines(byVariant, AllLines(edges))

-----------------------------------------------------------------------------
(* Snapshots, the report join and the export encoders.                     *)

\* labelForTodayTZ(TIMEZONE): the calendar date of the clock, YYYY-MM-DD.
\* The clock of the model stays within one day.
labelForTodayTZ == "2024-06-01"

\* The segments of `${label}.json` between path separators.  Strings are not
\* taken apart here, so the labels that hold a separator are listed; any
\* other label is one segment.
LabelSegments(label) ==
  CASE label = "../snapshots/x|y" -> <<"..", "snapshots", "x|y.json">>
    [] label = "a/b" -> <<"a", "b.json">>
    [] OTHER -> <<label \o ".json">>

\* path.normalize over segments: "." and empty segments go, ".." takes the
\* segment before it away.
RECURSIVE Normalize(_, _)
Normalize(done, rest) ==
  IF rest = <<>> THEN done
  ELSE LET s == Head(rest)
       IN  IF s = "." \/ s = "" THEN Normalize(done, Tail(rest))
           ELSE IF s = ".."
                THEN Normalize(IF done = <<>> THEN done
                               ELSE SubSeq(done, 1, Len(done) - 1), Tail(rest))
                ELSE Normalize(Append(done, s), Tail(rest))

RECURSIVE JoinSegs(_)
JoinSegs(segs) ==
  IF segs = <<>> THEN ""
  ELSE IF Len(segs) = 1 THEN segs[1]
  ELSE segs[1] \o "/" \o JoinSegs(Tail(segs))

\* SNAPSHOT_DIR below __dirname, and the directories that exist after boot
\* (lines 169-172; nothing else creates a directory).
SNAPSHOT_DIR == <<"data", "snapshots">>
Dirs == {<<>>, <<"data">>, SNAPSHOT_DIR, <<"exports">>, <<"public">>}

\* path.join(SNAPSHOT_DIR, `${label}.json`), below __dirname.
snapshotSegs(label) == Normalize(<<>>, SNAPSHOT_DIR \o LabelSegments(label))
snapshotPath(label) == JoinSegs(snapshotSegs(label))

\* fs.writeFileSync finds the directory of the path.
DirExists(label) ==
  LET segs == snapshotSegs(label)
  IN  segs # <<>> /\ SubSeq(segs, 1, Len(segs) - 1) \in Dirs

\* What a file holds after a write that failed part-way: the start of the
\* text, which is no JSON value.
TornText == <<[name |-> "{", value |-> 0]>>
Parseable(t) == \A n \in DOMAIN t : t[n].name # "{"

\* The surroundings in which every write and every database call succeeds.
\* disk: "ok", "readonly" (a write fails and leaves the file as it was) or
\* "full" (a write fails after the file was opened and truncated).
\* mongo: "up" or "down" (connect and every command reject).
EnvOk == [disk |-> "ok", mongo |-> "up"]

\* createSnapshot, lines 419-424: endingQty summed per variantId.
RECURSIVE BuildSnapMap(_)
BuildSnapMap(rows) ==
  IF rows = <<>> THEN <<>>
  ELSE LET snapMap == BuildSnapMap(SubSeq(rows, 1, Len(rows) - 1))
           r == rows[Len(rows)]
           prev == OrNum(MapGet(snapMap, r.variantId), 0)
       IN  MapSet(snapMap, r.variantId, prev + OrNum(Some(r.endingQty), 0))

SnapshotFileText(snapMap) == JSONStringify(ObjectFromEntries(snapMap))

\* createSnapshot, lines 438-448: one upsert per entry of snapMap.
BulkOps(label, snapMap) ==
  {[_id |-> label \o "|" \o ToStr(snapMap[i][1]),
    label |-> label, variantId |-> snapMap[i][1], qty |-> snapMap[i][2]]
     : i \in DOMAIN snapMap}

\* An upsert that adds the quantity to the one already stored ($inc for $set).
UpsertAdd(col, id, doc) ==
  [k \in DOMAIN col \cup {id} |->
     IF k # id THEN col[k]
     ELSE IF id \in DOMAIN col /\ "qty" \in DOMAIN doc
          THEN [doc EXCEPT !.qty = @ + col[id].qty]
          ELSE doc]

\* updateOne({_id}, {$set: doc}, {upsert: true}) on a collection keyed by _id.
Upsert(col, id, doc) == [k \in DOMAIN col \cup {id} |-> IF k = id THEN doc ELSE col[k]]

\* invCol.find({label}) and the loop of lines 603-608: the object the
\* documents of that label build, one property per document.
MongoFind(col, label) == {col[k] : k \in {j \in DOMAIN col : col[j].label = label}}

RECURSIVE DocsToObject(_)
DocsToObject(docs) ==
  IF docs = {} THEN <<>>
  ELSE LET d == CHOOSE x \in docs : TRUE
       IN  <<<<ToStr(d.variantId), d.qty>>>> \o DocsToObject(docs \ {d})

\* FromMongo without the reset to null: an empty object for a label without
\* documents.
FromMongoNoReset(col, label) == Some(DocsToObject(MongoFind(col, label)))

\* POST /report, lines 597-613: the start snapshot from the indexed store,
\* null when it holds no document of the label.
FromMongo(col, label) ==
  LET docs == MongoFind(col, label)
      cnt == Cardinality(docs)
  IN  IF cnt = 0 THEN None ELSE Some(DocsToObject(docs))

\* POST /report, lines 618-627: the start snapshot from the file store.
FromFile(fs, label) ==
  LET p == snapshotPath(label)
  IN  IF p \in DOMAIN fs THEN Some(JSONParse(fs[p])) ELSE None

\* The join key of a catalog record, line 474.
RowKey(r) ==
  IF r.variantId # None /\ r.variantId # Some("") THEN r.variantId
  ELSE IF r.variantSku # None /\ r.variantSku # Some("")
       THEN Some("SKU:" \o r.variantSku[1]) ELSE None

\* ReportRow without the default of 0: a record the aggregate has no entry
\* for shows -1, no count.
ReportRowNullSold(r, unitsSoldMap, startSnapshot) ==
  [vendor |-> r.productVendor,
   vendor_invoice_date |-> r.vendorInvoiceDate,
   vendor_invoice_number |-> r.vendorInvoiceNumber,
   product_title |-> r.productTitle,
   product_variant_sku |-> r.variantSku,
   unit_cost |-> r.unitCost,
   unit_cost_currency |-> r.unitCostCurrency,
   starting_inventory_qty |-> None,
   ending_inventory_qty |-> r.endingQty,
   units_sold |-> IF RowKey(r) # None /\ MapHas(unitsSoldMap, RowKey(r)[1])
                  THEN MapGet(unitsSoldMap, RowKey(r)[1])[1] ELSE -1]

\* ReportRow with the aggregate under "SKU:"+sku added to the one under the
\* variant id.
ReportRowBothKeys(r, unitsSoldMap, startSnapshot) ==
  [vendor |-> r.productVendor,
   vendor_invoice_date |-> r.vendorInvoiceDate,
   vendor_invoice_number |-> r.vendorInvoiceNumber,
   product_title |-> r.productTitle,
   product_variant_sku |-> r.variantSku,
   unit_cost |-> r.unitCost,
   unit_cost_currency |-> r.unitCostCurrency,
   starting_inventory_qty |-> None,
   ending_inventory_qty |-> r.endingQty,
   units_sold |->
     (IF r.variantId # None THEN OrNum(MapGet(unitsSoldMap, r.variantId[1]), 0) ELSE 0)
     + (IF r.variantSku # None /\ r.variantSku # Some("")
        THEN OrNum(MapGet(unitsSoldMap, "SKU:" \o r.variantSku[1]), 0) ELSE 0)]

\* ReportRow with the quantity tested for truth instead of compared with
\* undefined: a quantity of 0 reads as no quantity.
ReportRowZeroAsNull(r, unitsSoldMap, startSnapshot) ==
  LET vKey == RowKey(r)
      found == IF startSnapshot # None /\ r.variantId # None /\ r.variantId # Some("")
               THEN ObjGet(startSnapshot[1], r.variantId[1]) ELSE None
  IN  [vendor |-> r.productVendor,
       vendor_invoice_date |-> r.vendorInvoiceDate,
       vendor_invoice_number |-> r.vendorInvoiceNumber,
       product_title |-> r.productTitle,
       product_variant_sku |-> r.variantSku,
       unit_cost |-> r.unitCost,
       unit_cost_currency |-> r.unitCostCurrency,
       starting_inventory_qty |-> IF found = Some(0) THEN None ELSE found,
       ending_inventory_qty |-> r.endingQty,
       units_sold |-> IF vKey # None THEN OrNum(MapGet(unitsSoldMap, vKey[1]), 0) ELSE 0]

\* buildReportRows, lines 473-490: the row of one catalog record.
ReportRow(r, unitsSoldMap, startSnapshot) ==
  LET vKey == RowKey(r)
      sold == IF vKey # None THEN OrNum(MapGet(unitsSoldMap, vKey[1]), 0) ELSE 0
      startingQty ==
        IF /\ startSnapshot # None
           /\ r.variantId # None /\ r.variantId # Some("")
           /\ ObjHas(startSnapshot[1], r.variantId[1])
        THEN ObjGet(startSnapshot[1], r.variantId[1])
        ELSE None
  IN  [vendor |-> r.productVendor,
       vendor_invoice_date |-> r.vendorInvoiceDate,
       vendor_invoice_number |-> r.vendorInvoiceNumber,
       product_title |-> r.productTitle,
       product_variant_sku |-> r.variantSku,
       unit_cost |-> r.unitCost,
       unit_cost_currency |-> r.unitCostCurrency,
       starting_inventory_qty |-> startingQty,
       ending_inventory_qty |-> r.endingQty,
       units_sold |-> sold]

\* buildReportRows with a missing start quantity reported as 0.
buildReportRowsZeroStart(productRows, unitsSoldMap, startSnapshot) ==
  [i \in DOMAIN productRows |->
     [ReportRow(productRows[i], unitsSoldMap, startSnapshot) EXCEPT
        !.starting_inventory_qty = IF @ = None THEN Some(0) ELSE @]]

\* buildReportRows keeping only the records that have sales.
HasSales(row) == row.units_sold > 0
buildReportRowsSoldOnly(productRows, unitsSoldMap, startSnapshot) ==
  SelectSeq([i \in DOMAIN productRows |->
               ReportRow(productRows[i], unitsSoldMap, startSnapshot)], HasSales)

\* buildReportRows, lines 472-493.
buildReportRows(productRows, unitsSoldMap, startSnapshot) ==
  [i \in DOMAIN productRows |-> ReportRow(productRows[i], unitsSoldMap, startSnapshot)]

defaultFields ==
  <<"vendor", "vendor_invoice_date", "vendor_invoice_number",
    "product_title", "product_variant_sku",
    "unit_cost", "unit_cost_currency",
    "starting_inventory_qty", "ending_inventory_qty", "units_sold">>

\* The text an encoder writes for one field of a row: null and undefined
\* as the empty text, a number in decimal.
CellText(row, f) ==
  IF f \notin DOMAIN row THEN ""
  ELSE IF f \in {"ending_inventory_qty", "units_sold"} THEN ToString(row[f])
  ELSE IF f \in {"vendor", "product_title"} THEN row[f]
  ELSE IF row[f] = None THEN ""
  ELSE IF f = "starting_inventory_qty" THEN ToString(row[f][1])
  ELSE row[f][1]

ExportFields(columns) ==
  IF columns # None /\ Len(columns[1]) > 0 THEN columns[1] ELSE defaultFields

\* writeCSV: a header line and one line per row.
CsvText(rows, columns) ==
  LET fields == ExportFields(columns)
  IN  [header |-> fields,
       lines |-> [i \in DOMAIN rows |->
                    [j \in DOMAIN fields |-> CellText(rows[i], fields[j])]]]

\* A field of a row that is null or undefined.
IsNullField(row, f) ==
  \/ f \notin DOMAIN row
  \/ /\ f \notin {"vendor", "product_title", "ending_inventory_qty", "units_sold"}
     /\ row[f] = None

\* writeXML, lines 510-519: one <row> per row; with columns the row is first
\* projected (o[c] = r[c]), without them it goes as it is, its own keys in
\* the order of lines 479-488.  create().ele(obj) is called with the
\* builder's default options, under which a member whose value is null or
\* undefined makes no element.
XmlText(rows, columns) ==
  LET fields == ExportFields(columns)
  IN  [i \in DOMAIN rows |->
         LET kept == SelectSeq(fields, LAMBDA f : ~IsNullField(rows[i], f))
         IN  [j \in DOMAIN kept |-> <<kept[j], CellText(rows[i], kept[j])>>]]

\* new Date().toISOString().replace(/[:.]/g,'-'), to the millisecond.
Stamp(t) == "2024-06-01T10-00-00-00" \o ToString(t) \o "Z"

\* rows.slice(0, 50)
SampleSize == 50
Slice(rows, n) == SubSeq(rows, 1, IF Len(rows) < n THEN Len(rows) ELSE n)

-----------------------------------------------------------------------------
(* Requests.  Each request slot holds one handler at a time.               *)

Reqs == {"r1", "r2"}

Response(status, ok, error) ==
  [status |-> status, ok |-> ok, error |-> error,
   label |-> None, count |-> None, file |-> None,
   rows |-> None, csv |-> None, xml |-> None, columns |-> None, sample |-> <<>>,
   startSnapshot |-> None, body |-> None]

IdleReq ==
  [op |-> "idle", pc |-> "idle", label |-> None, since |-> None, until |-> None,
   columns |-> None, snapMap |-> <<>>, pending |-> {}, createdAt |-> 0,
   response |-> None,
   params |-> None]

IdleInv ==
  [st |-> "idle", cursor |-> None, hasNext |-> TRUE, rows |-> <<>>, page |-> 0,
   error |-> "", sent |-> <<>>, got |-> <<>>, kinds |-> <<>>]

IdleOrd ==
  [st |-> "idle", q |-> "", cursor |-> None, hasNext |-> TRUE, byVariant |-> <<>>,
   page |-> 0, error |-> "", sent |-> <<>>, got |-> <<>>, kinds |-> <<>>]

\* shopifyGraphQL: the Error thrown for a response of each kind (the data
\* of a body without data is undefined, and data.products throws).
GqlError(kind) ==
  CASE kind = "http" -> "Error: GraphQL HTTP 500: body"
    [] kind = "errors" -> "Error: GraphQL errors: [...]"
    [] kind = "nodata" -> "TypeError: Cannot read properties of undefined"
    [] kind = "network" -> "TypeError: fetch failed"

\* What a step of a handler leaves behind besides its fetch locals.
Eff(r) == [req |-> r, files |-> files, exports |-> exports, mongoClient |-> mongoClient]

\* The catch block answering with an empty report instead of the error.
ThrowSwallowed(e, msg) ==
  [e EXCEPT !.req.pc = "done",
            !.req.response = Some([Response(200, TRUE, "") EXCEPT !.rows = Some(0)])]

\* The catch blocks of the route handlers, lines 572-575 and 651-654.
Throw(e, msg) ==
  [e EXCEPT !.req.pc = "done", !.req.response = Some(Response(500, FALSE, msg))]

\* ReportFinish that removes the snapshot file of the label it was given
\* once the report is written.
ReportFinishTidying(e, products, soldMap, fromMongo) ==
  LET r == e.req
      given == r.label # None /\ r.label # Some("")
      startSnapshot ==
        IF ~given THEN None
        ELSE IF fromMongo # None THEN fromMongo
        ELSE FromFile(e.files, r.label[1])
      unparseable == /\ given /\ fromMongo = None
                     /\ snapshotPath(r.label[1]) \in DOMAIN e.files
                     /\ ~Parseable(e.files[snapshotPath(r.label[1])])
      rows == buildReportRows(products, soldMap, startSnapshot)
      base == "inventory-report_" \o Stamp(now)
      file == [csv |-> CsvText(rows, r.columns), xml |-> XmlText(rows, r.columns)]
      payload == [Response(200, TRUE, "") EXCEPT
                    !.rows = Some(Len(rows)), !.csv = Some(base), !.xml = Some(base),
                    !.columns = IF r.columns # None /\ Len(r.columns[1]) > 0
                                THEN r.columns ELSE None,
                    !.sample = Slice(rows, SampleSize),
                    !.startSnapshot = startSnapshot]
  IN  IF unparseable
      THEN Throw(e, "SyntaxError: Unexpected end of JSON input")
      ELSE [e EXCEPT !.req.pc = "done", !.req.response = Some(payload),
                     !.files = IF given
                              THEN [f \in DOMAIN e.files \ {snapshotPath(r.label[1])} |-> e.files[f]]
                              ELSE e.files,
                     !.exports = [b \in DOMAIN e.exports \cup {base} |->
                                    IF b = base THEN file ELSE e.exports[b]]]

\* POST /report, lines 618-650: the file fallback, the join, the two export
\* files and the response.  fromMongo is the object read from the indexed
\* store, or null.
ReportFinish(e, products, soldMap, fromMongo) ==
  LET r == e.req
      given == r.label # None /\ r.label # Some("")
      startSnapshot ==
        IF ~given THEN None
        ELSE IF fromMongo # None THEN fromMongo
        ELSE FromFile(e.files, r.label[1])
      unparseable == /\ given /\ fromMongo = None
                     /\ snapshotPath(r.label[1]) \in DOMAIN e.files
                     /\ ~Parseable(e.files[snapshotPath(r.label[1])])
      rows == buildReportRows(products, soldMap, startSnapshot)
      base == "inventory-report_" \o Stamp(now)
      file == [csv |-> CsvText(rows, r.columns), xml |-> XmlText(rows, r.columns)]
      payload == [Response(200, TRUE, "") EXCEPT
                    !.rows = Some(Len(rows)), !.csv = Some(base), !.xml = Some(base),
                    !.columns = IF r.columns # None /\ Len(r.columns[1]) > 0
                                THEN r.columns ELSE None,
                    !.sample = Slice(rows, SampleSize),
                    !.startSnapshot = startSnapshot]
  IN  IF unparseable
      THEN Throw(e, "SyntaxError: Unexpected end of JSON input")
      ELSE [e EXCEPT !.req.pc = "done", !.req.response = Some(payload),
                     !.exports = [b \in DOMAIN e.exports \cup {base} |->
                                    IF b = base THEN file ELSE e.exports[b]]]

\* createSnapshot, line 468, and POST /snapshot, line 571.
SnapshotReturn(e) ==
  LET r == e.req
  IN  [e EXCEPT !.req.pc = "done",
                !.req.response = Some([Response(200, TRUE, "") EXCEPT
                                         !.label = r.label,
                                         !.count = Some(MapSize(r.snapMap)),
                                         !.file = Some(snapshotPath(r.label[1]))])]

\* createSnapshot, lines 435-462, up to the first await: the bulk write is
\* issued when there are ops, else the meta upsert.
SnapshotMongo(e) ==
  LET ops == BulkOps(e.req.label[1], e.req.snapMap)
  IN  IF ops # {}
      THEN [e EXCEPT !.req.pc = "bulk", !.req.pending = ops]
      ELSE [e EXCEPT !.req.pc = "meta", !.req.createdAt = now]

\* The caller of getDb, resumed with a database handle or with null.
WithDb(e) ==
  IF e.req.op = "snapshot" THEN SnapshotMongo(e) ELSE [e EXCEPT !.req.pc = "find"]

WithoutDb(e, products, soldMap) ==
  IF e.req.op = "snapshot" THEN SnapshotReturn(e)
  ELSE ReportFinish(e, products, soldMap, None)

\* getDb, lines 307-313, up to the await of connect.
getDb(e, products, soldMap) ==
  IF mongoDb THEN WithDb(e)
  ELSE IF ~mongoUri THEN WithoutDb(e, products, soldMap)
  ELSE [e EXCEPT !.req.pc = "connect", !.mongoClient = @ + 1]

\* createSnapshot, lines 417-433, resumed with the rows of the catalog fetch.
\* writeFileSync throws when the directory of the path does not exist and
\* when the disk refuses the write; the route handler catches it.
SnapshotAfterFetch(e, rows) ==
  LET snapMap == BuildSnapMap(rows)
      label == e.req.label[1]
      file == snapshotPath(label)
      WriteFile(text) == [e EXCEPT !.req.snapMap = snapMap,
                                   !.files = [f \in DOMAIN e.files \cup {file} |->
                                                IF f = file THEN text ELSE e.files[f]]]
  IN  IF ~DirExists(label)
      THEN Throw(e, "Error: ENOENT: no such file or directory, open")
      ELSE IF env.disk = "readonly"
      THEN Throw(e, "Error: EROFS: read-only file system, open")
      ELSE IF env.disk = "full"
      THEN Throw(WriteFile(TornText), "Error: ENOSPC: no space left on device, write")
      ELSE getDb(WriteFile(SnapshotFileText(snapMap)), <<>>, <<>>)

\* POST /report, lines 586-596, resumed by Promise.all with both results.
ReportAfterFetch(e, products, soldMap) ==
  IF e.req.label # None /\ e.req.label # Some("")
  THEN getDb(e, products, soldMap)
  ELSE ReportFinish(e, products, soldMap, None)

\* The run of a handler takes effect.  The count of clients created is
\* kept within MaxClients.
MaxClients == 2
Commit(p, e) ==
  /\ e.mongoClient <= MaxClients
  /\ req' = [req EXCEPT ![p] = e.req]
  /\ files' = e.files
  /\ exports' = e.exports
  /\ mongoClient' = e.mongoClient

\* History: when a createSnapshot call returns, what it scanned, what it
\* returned and what the two stores hold for its label; `times` counts the
\* calls in a row that had the same label and scanned the same pages.
Remember(p) ==
  lastSnap' =
    IF req'[p].op = "snapshot" /\ req'[p].pc = "done" /\ req[p].pc # "done"
       /\ req'[p].response[1].ok
    THEN LET label == req'[p].label[1]
             again == /\ lastSnap # None
                      /\ lastSnap[1].label = label
                      /\ lastSnap[1].scan = inv'[p].got
         IN  Some([label |-> label,
                   scan |-> inv'[p].got,
                   count |-> req'[p].response[1].count,
                   file |-> files'[snapshotPath(label)],
                   docs |-> MongoFind(invCol', label),
                   times |-> IF again /\ lastSnap[1].times < 2
                             THEN lastSnap[1].times + 1
                             ELSE IF again THEN 2 ELSE 1])
    ELSE lastSnap

\* History: a createSnapshot call whose fetch succeeded ends without
\* success (a store failed); or the call after it, on the same label and
\* the same scan, ends with success.
RememberFail(p) ==
  lastFail' =
    IF req'[p].op = "snapshot" /\ req'[p].pc = "done" /\ req[p].pc # "done"
       /\ inv'[p].st = "done"
    THEN IF ~req'[p].response[1].ok
         THEN Some([label |-> req'[p].label[1], scan |-> inv'[p].got,
                    at |-> req[p].pc,
                    partly |-> req[p].pc = "bulk" /\ req[p].pending # {}
                               /\ req[p].pending # BulkOps(req[p].label[1], req[p].snapMap),
                    recovered |-> FALSE])
         ELSE IF /\ lastFail # None /\ ~lastFail[1].recovered
                 /\ lastFail[1].label = req'[p].label[1]
                 /\ lastFail[1].scan = inv'[p].got
              THEN Some([lastFail[1] EXCEPT !.recovered = TRUE])
              ELSE None
    ELSE lastFail

Free(p) ==
  /\ req[p].pc \in {"idle", "done"}
  /\ inv[p].st # "wait"
  /\ ord[p].st # "wait"

\* fetchAllProductsAndInventory, lines 326-335: the locals and the first request.
InvStart == [IdleInv EXCEPT !.st = "wait", !.page = 1, !.sent = <<None>>]

\* fetchUnitsSold, lines 377-390.
\* toDateOnly keeping the time of day (no split at "T").
toDateOnlyWhole(s) == IF s = None THEN "" ELSE s[1].date \o "T" \o s[1].time
\* An instant of a request body is the text before its first "T" (date) and
\* the text after it (time); split("T")[0] is the former.
toDateOnly(s) == IF s = None THEN "" ELSE s[1].date
OrdersQuery(sinceISO, untilISO) ==
  "created_at:" \o toDateOnly(sinceISO) \o ".." \o toDateOnly(untilISO)
    \o " financial_status:paid -status:cancelled"
OrdStart(since, until) ==
  [IdleOrd EXCEPT !.st = "wait", !.page = 1, !.sent = <<None>>,
                  !.q = OrdersQuery(since, until)]

-----------------------------------------------------------------------------
(* Inputs of the requests.                                                 *)

Instants == {Some([date |-> "2024-05-01", time |-> "00:00:00Z"]),
             Some([date |-> "2024-05-31", time |-> "14:00:00Z"])}
BodyLabels == {None, Some(labelForTodayTZ)}
StartLabels == {None, Some("2024-05-31"), Some(labelForTodayTZ)}
ColumnLists == {None, Some(<<>>), Some(<<"vendor", "units_sold">>)}

-----------------------------------------------------------------------------
(* Actions.                                                                *)

\* POST /snapshot, lines 566-570, into createSnapshot and its first request.
StartSnapshot(p, bodyLabel) ==
  /\ Free(p)
  /\ req' = [req EXCEPT ![p] = [IdleReq EXCEPT !.op = "snapshot", !.pc = "fetch",
                                  !.label = Some(OrStr(bodyLabel, labelForTodayTZ))]]
  /\ inv' = [inv EXCEPT ![p] = InvStart]
  /\ ord' = [ord EXCEPT ![p] = IdleOrd]
  /\ UNCHANGED <<catalog, orders, mongoUri, mongoClient, mongoDb, invCol, metaCol,
                 files, exports, now, lastSnap, lastFail, env>>

\* A request field that is absent or the empty string: !since, !until.
EmptyInstant == Some([date |-> "", time |-> ""])
Blank(s) == s = None \/ s = EmptyInstant

\* StartReport without the check of since and until.
StartReportUnchecked(p, since, until, label, columns) ==
  /\ Free(p)
  /\ req' = [req EXCEPT ![p] = [IdleReq EXCEPT !.op = "report", !.pc = "fetch",
                                  !.label = label, !.since = since, !.until = until,
                                  !.columns = columns]]
  /\ inv' = [inv EXCEPT ![p] = InvStart]
  /\ ord' = [ord EXCEPT ![p] = OrdStart(since, until)]
  /\ UNCHANGED <<catalog, orders, mongoUri, mongoClient, mongoDb, invCol, metaCol,
                 files, exports, now, lastSnap, lastFail, env>>

\* POST /report, lines 578-589: the check of since and until, then both
\* fetches started, each up to its first request.
StartReport(p, since, until, label, columns) ==
  /\ Free(p)
  /\ LET missing == Blank(since) \/ Blank(until)
         r == [IdleReq EXCEPT !.op = "report", !.label = label, !.since = since,
                              !.until = until, !.columns = columns]
     IN  /\ req' = [req EXCEPT ![p] =
                      IF missing
                      THEN [r EXCEPT !.pc = "done",
                              !.response = Some(Response(400, FALSE, "Missing since/until (ISO)"))]
                      ELSE [r EXCEPT !.pc = "fetch"]]
         /\ inv' = [inv EXCEPT ![p] = IF missing THEN IdleInv ELSE InvStart]
         /\ ord' = [ord EXCEPT ![p] = IF missing THEN IdleOrd ELSE OrdStart(since, until)]
  /\ UNCHANGED <<catalog, orders, mongoUri, mongoClient, mongoDb, invCol, metaCol,
                 files, exports, now, lastSnap, lastFail, env>>

\* InvPage with the cursor left as it was (cursor = pageInfo.endCursor lost).
InvPageStaleCursor(f, page) ==
  LET more == page.pageInfo.hasNextPage
  IN  [f EXCEPT !.rows = @ \o PageRows(page.edges),
                !.hasNext = more,
                !.got = Append(@, page),
                !.kinds = Append(@, "data"),
                !.st = IF more THEN "wait" ELSE "done",
                !.page = IF more THEN @ + 1 ELSE @,
                !.sent = IF more THEN Append(@, f.cursor) ELSE @]

\* One turn of the while loop of fetchAllProductsAndInventory, from the
\* response to the pending request to the next request or the return.
InvPage(f, page) ==
  LET more == page.pageInfo.hasNextPage
  IN  [f EXCEPT !.rows = @ \o PageRows(page.edges),
                !.hasNext = more,
                !.cursor = page.pageInfo.endCursor,
                !.got = Append(@, page),
                !.kinds = Append(@, "data"),
                !.st = IF more THEN "wait" ELSE "done",
                !.page = IF more THEN @ + 1 ELSE @,
                !.sent = IF more THEN Append(@, page.pageInfo.endCursor) ELSE @]

\* Fail with the error swallowed: the loop ends with what it has.
FailSwallowed(f, kind) ==
  [f EXCEPT !.st = "done", !.hasNext = FALSE, !.kinds = Append(@, kind)]

\* shopifyGraphQL throws inside the loop: the fetch rejects.
Fail(f, kind) ==
  [f EXCEPT !.st = "failed", !.error = GqlError(kind), !.kinds = Append(@, kind)]

\* The turns of a fetch loop followed: the loops themselves have no limit.
MaxTurns == 4

InvResponse(p, kind) ==
  /\ inv[p].st = "wait"
  /\ inv[p].page <= MaxTurns
  /\ LET f == IF kind = "data" THEN InvPage(inv[p], PageAt(catalog, inv[p].cursor))
              ELSE Fail(inv[p], kind)
         e0 == Eff(req[p])
         e == IF req[p].pc # "fetch" THEN e0
              ELSE IF f.st = "failed" THEN Throw(e0, f.error)
              ELSE IF f.st = "wait" THEN e0
              ELSE IF req[p].op = "snapshot" THEN SnapshotAfterFetch(e0, f.rows)
              ELSE IF ord[p].st = "done" THEN ReportAfterFetch(e0, f.rows, ord[p].byVariant)
              ELSE e0
     IN  /\ inv' = [inv EXCEPT ![p] = f]
         /\ Commit(p, e)
  /\ UNCHANGED <<catalog, orders, mongoUri, mongoDb, invCol, metaCol, now, ord, env>>
  /\ RememberFail(p)
  /\ Remember(p)

\* One turn of the while loop of fetchUnitsSold.
OrdPage(f, page) ==
  LET more == page.pageInfo.hasNextPage
  IN  [f EXCEPT !.byVariant = PageSales(@, page.edges),
                !.hasNext = more,
                !.cursor = page.pageInfo.endCursor,
                !.got = Append(@, page),
                !.kinds = Append(@, "data"),
                !.st = IF more THEN "wait" ELSE "done",
                !.page = IF more THEN @ + 1 ELSE @,
                !.sent = IF more THEN Append(@, page.pageInfo.endCursor) ELSE @]

\* OrdResponse going on to the join without waiting for the catalog fetch.
OrdResponseEarly(p, kind) ==
  /\ ord[p].st = "wait"
  /\ ord[p].page <= MaxTurns
  /\ LET f == IF kind = "data" THEN OrdPage(ord[p], PageAt(orders, ord[p].cursor))
              ELSE Fail(ord[p], kind)
         e0 == Eff(req[p])
         e == IF req[p].pc # "fetch" THEN e0
              ELSE IF f.st = "failed" THEN Throw(e0, f.error)
              ELSE IF f.st = "wait" THEN e0
              ELSE ReportAfterFetch(e0, inv[p].rows, f.byVariant)
     IN  /\ ord' = [ord EXCEPT ![p] = f]
         /\ Commit(p, e)
  /\ UNCHANGED <<catalog, orders, mongoUri, mongoDb, invCol, metaCol, now, inv, lastSnap, lastFail, env>>

\* Promise.all, lines 586-589: the last page of the sales fetch resumes the
\* handler when the catalog fetch has returned too.
OrdResponse(p, kind) ==
  /\ ord[p].st = "wait"
  /\ ord[p].page <= MaxTurns
  /\ LET f == IF kind = "data" THEN OrdPage(ord[p], PageAt(orders, ord[p].cursor))
              ELSE Fail(ord[p], kind)
         e0 == Eff(req[p])
         e == IF req[p].pc # "fetch" THEN e0
              ELSE IF f.st = "failed" THEN Throw(e0, f.error)
              ELSE IF f.st = "wait" THEN e0
              ELSE IF inv[p].st = "done" THEN ReportAfterFetch(e0, inv[p].rows, f.byVariant)
              ELSE e0
     IN  /\ ord' = [ord EXCEPT ![p] = f]
         /\ Commit(p, e)
  /\ UNCHANGED <<catalog, orders, mongoUri, mongoDb, invCol, metaCol, now, inv, lastSnap, lastFail, env>>

\* A driver call rejects when the database server does not answer; the
\* rejection leaves getDb or createSnapshot and reaches the catch block of
\* the route handler.
MongoError == "MongoServerSelectionError: connect ECONNREFUSED"
Down == env.mongo = "down"
\* The rejection going unnoticed: the handler answers as after a return.
RejectedQuiet(p) == SnapshotReturn(Eff(req[p]))
Rejected(p) == Throw(Eff(req[p]), MongoError)

\* getDb, lines 314-319: connect has resolved, mongoDb is set and the index
\* is asked for; or connect has rejected and mongoDb stays null.
ConnectDone(p) ==
  /\ req[p].pc = "connect"
  /\ mongoDb' = ~Down
  /\ req' = [req EXCEPT ![p] = IF Down THEN Rejected(p).req ELSE [@ EXCEPT !.pc = "index"]]
  /\ UNCHANGED <<catalog, orders, mongoUri, mongoClient, invCol, metaCol, files,
                 exports, now, inv, ord, lastSnap, env>>
  /\ RememberFail(p)

\* getDb, line 320: createIndex has resolved; the caller goes on with the handle.
IndexDone(p) ==
  /\ req[p].pc = "index"
  /\ Commit(p, IF Down THEN Rejected(p) ELSE WithDb(Eff(req[p])))
  /\ UNCHANGED <<catalog, orders, mongoUri, mongoDb, invCol, metaCol, now, inv, ord,
                 lastSnap, env>>
  /\ RememberFail(p)

\* invCol.bulkWrite(ops, {ordered: false}): the server applies one of the ops.
BulkApply(p) ==
  /\ req[p].pc = "bulk"
  /\ ~Down
  /\ \E op \in req[p].pending :
       /\ invCol' = Upsert(invCol, op._id, op)
       /\ req' = [req EXCEPT ![p].pending = @ \ {op}]
  /\ UNCHANGED <<catalog, orders, mongoUri, mongoClient, mongoDb, metaCol, files,
                 exports, now, inv, ord, lastSnap, lastFail, env>>

\* createSnapshot, lines 451-462: bulkWrite has resolved and the meta upsert
\* is issued; or it has rejected, with the ops applied so far left in place.
BulkDone(p) ==
  /\ req[p].pc = "bulk"
  /\ Down \/ req[p].pending = {}
  /\ req' = [req EXCEPT ![p] = IF Down THEN Rejected(p).req
                               ELSE [@ EXCEPT !.pc = "meta", !.createdAt = now]]
  /\ UNCHANGED <<catalog, orders, mongoUri, mongoClient, mongoDb, invCol, metaCol,
                 files, exports, now, inv, ord, lastSnap, env>>
  /\ RememberFail(p)

\* createSnapshot, lines 458-468: the meta upsert has resolved; the handler answers.
MetaDone(p) ==
  /\ req[p].pc = "meta"
  /\ metaCol' = IF Down THEN metaCol
                ELSE Upsert(metaCol, req[p].label[1],
                            [createdAt |-> req[p].createdAt,
                             count |-> MapSize(req[p].snapMap)])
  /\ Commit(p, IF Down THEN Rejected(p) ELSE SnapshotReturn(Eff(req[p])))
  /\ UNCHANGED <<catalog, orders, mongoUri, mongoDb, invCol, now, inv, ord, env>>
  /\ RememberFail(p)
  /\ Remember(p)

\* POST /report, lines 597-650: the documents of the label have been read.
FindDone(p) ==
  /\ req[p].pc = "find"
  /\ Commit(p, IF Down THEN Rejected(p)
               ELSE ReportFinish(Eff(req[p]), inv[p].rows, ord[p].byVariant,
                                 FromMongo(invCol, req[p].label[1])))
  /\ UNCHANGED <<catalog, orders, mongoUri, mongoDb, invCol, metaCol, now, inv, ord,
                 lastSnap, lastFail, env>>

\* The :base of a download URL as the pieces of its text, each piece either
\* of characters in [a-zA-Z0-9._-] or of others.  safeBase keeps the former.
Piece(text, safe) == [text |-> text, safe |-> safe]
RECURSIVE safeBase(_)
safeBase(name) ==
  IF name = <<>> THEN ""
  ELSE (IF Head(name).safe THEN Head(name).text ELSE "") \o safeBase(Tail(name))

\* (req.query.enc || 'utf8').toLowerCase(), and the charset served.
ToLowerCase(s) == IF s = "WINDOWS-1251" THEN "windows-1251" ELSE s
Charset(enc) ==
  IF ToLowerCase(OrStr(enc, "utf8")) \in {"win1251", "windows-1251"}
  THEN "windows-1251" ELSE "utf-8"

\* GET /download/csv/:base and /download/xml/:base, lines 525-563: one run,
\* without an await.  The body is the stored text in the charset asked
\* for; the utf-8 CSV is led by a byte order mark.
Download(p, kind, name, enc) ==
  /\ Free(p)
  /\ LET base == safeBase(name)
         found == base \in DOMAIN exports
         body == [charset |-> Charset(enc),
                  bom |-> kind = "csv" /\ Charset(enc) = "utf-8",
                  kind |-> kind,
                  text |-> IF kind = "csv" THEN Some(exports[base].csv)
                           ELSE Some(exports[base].xml)]
         answer == IF found THEN [Response(200, TRUE, "") EXCEPT !.body = Some(body)]
                   ELSE Response(404, FALSE, "File not found")
     IN  req' = [req EXCEPT ![p] =
                   [IdleReq EXCEPT !.op = "download", !.pc = "done",
                                   !.params = Some([kind |-> kind, name |-> name, enc |-> enc]),
                                   !.response = Some(answer)]]
  /\ UNCHANGED <<catalog, orders, mongoUri, mongoClient, mongoDb, invCol, metaCol, files,
                 exports, now, inv, ord, lastSnap, lastFail, env>>

\* Someone outside the program removes an export file (nothing in the
\* program does).
RemoveExport ==
  /\ \E b \in DOMAIN exports : exports' = [x \in DOMAIN exports \ {b} |-> exports[x]]
  /\ UNCHANGED <<catalog, orders, mongoUri, mongoClient, mongoDb, invCol, metaCol, files,
                 now, req, inv, ord, lastSnap, lastFail, env>>

\* The clock advances.
MaxNow == 1
Tick ==
  /\ now < MaxNow
  /\ now' = now + 1
  /\ UNCHANGED <<catalog, orders, mongoUri, mongoClient, mongoDb, invCol, metaCol,
                 files, exports, req, inv, ord, lastSnap, lastFail, env>>

\* The store's catalog changes between two page requests.
RemoteChange(c) ==
  /\ c # catalog
  /\ catalog' = c
  /\ UNCHANGED <<orders, mongoUri, mongoClient, mongoDb, invCol, metaCol, files,
                 exports, now, req, inv, ord, lastSnap, lastFail, env>>

\* The disk or the database server changes its condition; one of them is
\* out of order at a time.
Envs == {EnvOk, [EnvOk EXCEPT !.disk = "readonly"], [EnvOk EXCEPT !.disk = "full"],
         [EnvOk EXCEPT !.mongo = "down"]}
EnvChange(e) ==
  /\ e # env
  /\ env' = e
  /\ UNCHANGED <<catalog, orders, mongoUri, mongoClient, mongoDb, invCol, metaCol, files,
                 exports, now, req, inv, ord, lastSnap, lastFail>>

NoFiles == [f \in {} |-> <<>>]

\* The process has started: nothing connected, no request yet.
InitServer ==
  /\ mongoClient = 0
  /\ mongoDb = FALSE
  /\ invCol = NoFiles
  /\ metaCol = NoFiles
  /\ files = NoFiles
  /\ exports = NoFiles
  /\ now = 0
  /\ lastSnap = None
  /\ lastFail = None
  /\ env = EnvOk
  /\ req = [p \in Reqs |-> IdleReq]
  /\ inv = [p \in Reqs |-> IdleInv]
  /\ ord = [p \in Reqs |-> IdleOrd]

-----------------------------------------------------------------------------
(* Spec: snapshot and report requests, one after the other, against a      *)
(* store whose catalog changes at any moment, with and without the indexed *)
(* store.  All of it happens within one reading of the clock.              *)

SysCatalogs == {MkPages(<<EdgesA>>), MkPages(<<EdgesD, EdgesB>>), MkPages(<<EdgesC>>)}
SysOrderBooks == {MkPages(<<OrdersA, OrdersB>>)}
SysRespKinds == {"data", "http"}
SysInstant == Some([date |-> "2024-05-01", time |-> "00:00:00Z"])
SysWindows == {<<SysInstant, SysInstant>>, <<None, SysInstant>>, <<SysInstant, None>>,
               <<EmptyInstant, SysInstant>>, <<SysInstant, EmptyInstant>>}

Init ==
  /\ catalog \in SysCatalogs
  /\ orders \in SysOrderBooks
  /\ mongoUri \in BOOLEAN
  /\ InitServer

Next ==
  \/ \E l \in BodyLabels : StartSnapshot("r1", l)
  \/ \E w \in SysWindows, l \in StartLabels :
        StartReport("r1", w[1], w[2], l, None)
  \/ \E k \in SysRespKinds : InvResponse("r1", k)
  \/ \E k \in SysRespKinds : OrdResponse("r1", k)
  \/ ConnectDone("r1")
  \/ IndexDone("r1")
  \/ BulkApply("r1")
  \/ BulkDone("r1")
  \/ MetaDone("r1")
  \/ FindDone("r1")
  \/ \E c \in SysCatalogs : RemoteChange(c)

Spec == Init /\ [][Next]_vars

-----------------------------------------------------------------------------
(* SpecFetch: the paginated fetches of a report or a snapshot request,     *)
(* page by page, over every sample catalog beside one order book and every *)
(* sample order book beside one catalog, each response ending in any of    *)
(* the ways a response can end.  No database is configured.                *)

BaseCatalogs == {MkPages(<<EdgesA, EdgesB>>)}
BaseOrderBooks == {MkPages(<<OrdersA, OrdersB>>)}

InitFetch ==
  /\ catalog \in Catalogs
  /\ orders \in OrderBooks
  /\ catalog \in BaseCatalogs \/ orders \in BaseOrderBooks
  /\ mongoUri = FALSE
  /\ InitServer

NextFetch ==
  \/ StartReport("r1", SysInstant, SysInstant, None, None)
  \/ StartSnapshot("r1", None)
  \/ \E k \in RespKinds : InvResponse("r1", k)
  \/ \E k \in RespKinds : OrdResponse("r1", k)

SpecFetch == InitFetch /\ [][NextFetch]_vars

-----------------------------------------------------------------------------
(* SpecJoin: a report request whose catalog fetch has returned and whose   *)
(* sales fetch awaits its last page, over every pair of sample catalog and *)
(* sample order book and over stores left by earlier snapshot requests;    *)
(* the last page arrives and the handler runs to its response.             *)

\* The fetch locals after the loop has run over the pages of a remote.
RECURSIVE RunInv(_, _)
RunInv(f, pages) ==
  IF f.st # "wait" THEN f ELSE RunInv(InvPage(f, PageAt(pages, f.cursor)), pages)

RECURSIVE RunOrdToLast(_, _)
RunOrdToLast(f, pages) ==
  LET page == PageAt(pages, f.cursor)
  IN  IF ~page.pageInfo.hasNextPage THEN f ELSE RunOrdToLast(OrdPage(f, page), pages)

\* What createSnapshot(label) leaves in the stores for the rows of a scan.
StoreOf(label, rows, withMongo) ==
  LET snapMap == BuildSnapMap(rows)
      ops == BulkOps(label, snapMap)
      file == snapshotPath(label)
  IN  [files |-> [f \in {file} |-> SnapshotFileText(snapMap)],
       invCol |-> IF withMongo
                  THEN [id \in {d._id : d \in ops} |-> CHOOSE d \in ops : d._id = id]
                  ELSE NoFiles,
       metaCol |-> IF withMongo
                   THEN [l \in {label} |-> [createdAt |-> 0, count |-> MapSize(snapMap)]]
                   ELSE NoFiles]

JoinStores ==
  {[files |-> NoFiles, invCol |-> NoFiles, metaCol |-> NoFiles],
   StoreOf(labelForTodayTZ, RunInv(InvStart, MkPages(<<EdgesA>>)).rows, TRUE),
   StoreOf(labelForTodayTZ, RunInv(InvStart, MkPages(<<EdgesC>>)).rows, TRUE),
   StoreOf(labelForTodayTZ, RunInv(InvStart, MkPages(<<EdgesD, EdgesB>>)).rows, FALSE),
   StoreOf(labelForTodayTZ, RunInv(InvStart, MkPages(<<EdgesZ>>)).rows, TRUE)}

MaxJoinPages == 1

\* The bodies of the report request: every label with the default columns,
\* and every column list and end of window with the label of today.
JoinBodies ==
  {[label |-> l, columns |-> None, until |-> SysInstant] : l \in StartLabels}
    \cup {[label |-> Some(labelForTodayTZ), columns |-> c, until |-> u] :
            c \in ColumnLists, u \in Instants}

InitJoin ==
  /\ catalog \in {MkPages(e) : e \in SeqsUpTo(ProductEdgeSamples, MaxJoinPages) \ {<<>>}}
  /\ orders \in {MkPages(e) : e \in SeqsUpTo(OrderEdgeSamples, MaxJoinPages) \ {<<>>}}
  /\ mongoUri \in BOOLEAN
  /\ mongoClient = IF mongoUri THEN 1 ELSE 0
  /\ mongoDb = mongoUri
  /\ \E s \in JoinStores :
       /\ files = s.files
       /\ invCol = IF mongoUri THEN s.invCol ELSE NoFiles
       /\ metaCol = IF mongoUri THEN s.metaCol ELSE NoFiles
  /\ exports = NoFiles
  /\ now = 0
  /\ lastSnap = None
  /\ lastFail = None
  /\ env = EnvOk
  /\ \E b \in JoinBodies :
       /\ req = [p \in Reqs |->
                   IF p = "r1"
                   THEN [IdleReq EXCEPT !.op = "report", !.pc = "fetch",
                                        !.label = b.label, !.since = SysInstant,
                                        !.until = b.until, !.columns = b.columns]
                   ELSE IdleReq]
       /\ ord = [p \in Reqs |->
                   IF p = "r1" THEN RunOrdToLast(OrdStart(SysInstant, b.until), orders)
                   ELSE IdleOrd]
  /\ inv = [p \in Reqs |-> IF p = "r1" THEN RunInv(InvStart, catalog) ELSE IdleInv]

NextJoin ==
  \/ OrdResponse("r1", "data")
  \/ FindDone("r1")
  \/ Tick

SpecJoin == InitJoin /\ [][NextJoin]_vars

-----------------------------------------------------------------------------
(* SpecLabels: snapshot and report requests whose body names a label: one  *)
(* with the "|" of the document ids, one that reaches the file of the      *)
(* first through "..", and one with a path separator.                      *)

LabelSamples == {"x|y", "../snapshots/x|y", "a/b"}
LabelCatalogs == {MkPages(<<EdgesA>>), MkPages(<<EdgesD>>)}

InitLabels ==
  /\ catalog \in LabelCatalogs
  /\ orders \in SysOrderBooks
  /\ mongoUri \in BOOLEAN
  /\ InitServer

NextLabels ==
  \/ \E l \in LabelSamples : StartSnapshot("r1", Some(l))
  \/ \E l \in LabelSamples : StartReport("r1", SysInstant, SysInstant, Some(l), None)
  \/ InvResponse("r1", "data")
  \/ OrdResponse("r1", "data")
  \/ ConnectDone("r1")
  \/ IndexDone("r1")
  \/ BulkApply("r1")
  \/ BulkDone("r1")
  \/ MetaDone("r1")
  \/ FindDone("r1")
  \/ \E c \in LabelCatalogs : RemoteChange(c)

SpecLabels == InitLabels /\ [][NextLabels]_vars

-----------------------------------------------------------------------------
(* SpecRace: two createSnapshot calls for the label of today at a time     *)
(* (requests or scheduled triggers), their awaits interleaved, while the   *)
(* quantities of the catalog change between their scans.                   *)

\* The catalog of EdgesA after a sale: the same variants, gid1 with other
\* quantities.
EdgesA2 ==
  <<Product("p1", "Shirt", "Acme", Some([value |-> "2024-05-01"]), None, <<V1b, V3>>), P2>>
RaceCatalogs == {MkPages(<<EdgesA>>), MkPages(<<EdgesA2>>)}

InitRace ==
  /\ catalog \in RaceCatalogs
  /\ orders \in SysOrderBooks
  /\ mongoUri \in BOOLEAN
  /\ InitServer

NextRace ==
  \/ \E p \in Reqs : StartSnapshot(p, None)
  \/ \E p \in Reqs : InvResponse(p, "data")
  \/ \E p \in Reqs : ConnectDone(p)
  \/ \E p \in Reqs : IndexDone(p)
  \/ \E p \in Reqs : BulkApply(p)
  \/ \E p \in Reqs : BulkDone(p)
  \/ \E p \in Reqs : MetaDone(p)
  \/ \E c \in RaceCatalogs : RemoteChange(c)

SpecRace == InitRace /\ [][NextRace]_vars

-----------------------------------------------------------------------------
(* SpecFaults: snapshot requests for the label of today while the disk      *)
(* refuses writes or the database server stops answering, at any moment,   *)
(* and the catalog changes between requests.                               *)

FaultCatalogs == {MkPages(<<EdgesA>>), MkPages(<<EdgesB>>)}

InitFaults ==
  /\ catalog \in FaultCatalogs
  /\ orders \in SysOrderBooks
  /\ mongoUri \in BOOLEAN
  /\ InitServer

NextFaults ==
  \/ StartSnapshot("r1", None)
  \/ InvResponse("r1", "data")
  \/ ConnectDone("r1")
  \/ IndexDone("r1")
  \/ BulkApply("r1")
  \/ BulkDone("r1")
  \/ MetaDone("r1")
  \/ \E c \in FaultCatalogs : RemoteChange(c)
  \/ \E e \in Envs : EnvChange(e)

SpecFaults == InitFaults /\ [][NextFaults]_vars

-----------------------------------------------------------------------------
(* SpecOutage: report requests naming a start snapshot, over stores left   *)
(* by earlier snapshot requests (nothing, a complete snapshot, a file      *)
(* whose write failed part-way), while the database server stops and       *)
(* resumes answering at any moment.                                        *)

OutageStores ==
  {[files |-> NoFiles, invCol |-> NoFiles, metaCol |-> NoFiles],
   StoreOf(labelForTodayTZ, RunInv(InvStart, MkPages(<<EdgesA>>)).rows, TRUE),
   [files |-> [f \in {snapshotPath(labelForTodayTZ)} |-> TornText],
    invCol |-> NoFiles, metaCol |-> NoFiles]}

InitOutage ==
  /\ catalog \in FaultCatalogs
  /\ orders \in SysOrderBooks
  /\ mongoUri \in BOOLEAN
  /\ mongoDb \in {FALSE, mongoUri}
  /\ mongoClient = IF mongoDb THEN 1 ELSE 0
  /\ \E s \in OutageStores :
       /\ files = s.files
       /\ invCol = IF mongoUri THEN s.invCol ELSE NoFiles
       /\ metaCol = IF mongoUri THEN s.metaCol ELSE NoFiles
  /\ exports = NoFiles
  /\ now = 0
  /\ lastSnap = None
  /\ lastFail = None
  /\ env = EnvOk
  /\ req = [p \in Reqs |-> IdleReq]
  /\ inv = [p \in Reqs |-> IdleInv]
  /\ ord = [p \in Reqs |-> IdleOrd]

NextOutage ==
  \/ \E l \in StartLabels : StartReport("r1", SysInstant, SysInstant, l, None)
  \/ InvResponse("r1", "data")
  \/ OrdResponse("r1", "data")
  \/ ConnectDone("r1")
  \/ IndexDone("r1")
  \/ FindDone("r1")
  \/ \E e \in {EnvOk, [EnvOk EXCEPT !.mongo = "down"]} : EnvChange(e)

SpecOutage == InitOutage /\ [][NextOutage]_vars

-----------------------------------------------------------------------------
(* SpecPair: two report requests at a time, their windows differing in the *)
(* time of day or in the date and their column lists differing, their      *)
(* awaits interleaved, while the clock may or may not advance between      *)
(* their export steps.  No database is configured.                         *)

PairWindows ==
  {<<Some([date |-> "2024-05-01", time |-> "00:00:00Z"]),
     Some([date |-> "2024-05-31", time |-> "14:00:00Z"])>>,
   <<Some([date |-> "2024-05-01", time |-> "09:30:00Z"]),
     Some([date |-> "2024-05-31", time |-> "23:59:59Z"])>>,
   <<Some([date |-> "2024-05-01", time |-> "00:00:00Z"]),
     Some([date |-> "2024-05-30", time |-> "14:00:00Z"])>>}
PairColumns == {None, Some(<<"vendor", "units_sold">>)}

InitPair ==
  /\ catalog \in {MkPages(<<EdgesA>>)}
  /\ orders \in SysOrderBooks
  /\ mongoUri = FALSE
  /\ InitServer

NextPair ==
  \/ \E p \in Reqs, w \in PairWindows, c \in PairColumns :
        StartReport(p, w[1], w[2], None, c)
  \/ \E p \in Reqs : InvResponse(p, "data")
  \/ \E p \in Reqs : OrdResponse(p, "data")
  \/ Tick

SpecPair == InitPair /\ [][NextPair]_vars

-----------------------------------------------------------------------------
(* SpecDownload: download requests beside report requests: for an export  *)
(* that exists, for one never generated, for one removed since, and for a  *)
(* name that differs from an export's by a character safeBase drops.       *)

DownloadNames ==
  {<<Piece("inventory-report_" \o Stamp(0), TRUE)>>,
   <<Piece("inventory-report_1999", TRUE)>>,
   <<Piece("inventory-report_" \o Stamp(0), TRUE), Piece("!", FALSE)>>}
DownloadEncodings == {None, Some("win1251"), Some("WINDOWS-1251")}

InitDownload ==
  /\ catalog \in {MkPages(<<EdgesA>>)}
  /\ orders \in SysOrderBooks
  /\ mongoUri = FALSE
  /\ InitServer

NextDownload ==
  \/ \E c \in PairColumns : StartReport("r1", SysInstant, SysInstant, None, c)
  \/ InvResponse("r1", "data")
  \/ OrdResponse("r1", "data")
  \/ Tick
  \/ \E k \in {"csv", "xml"}, n \in DownloadNames, e \in DownloadEncodings :
        Download("r2", k, n, e)
  \/ RemoveExport

SpecDownload == InitDownload /\ [][NextDownload]_vars

-----------------------------------------------------------------------------
(* SpecLive: the fetches of a report or a snapshot request against remotes *)
(* that end their pages and remotes that never do (hasNextPage = true on   *)
(* every page, the cursor null or repeated), every page request being      *)
(* answered sooner or later, with data or with a failure.                  *)

InitLive ==
  /\ catalog \in {MkPages(<<EdgesA, EdgesB>>), LoopPages(<<EdgesA>>, None),
                  LoopPages(<<EdgesA, EdgesD>>, Some(1))}
  /\ orders \in {MkPages(<<OrdersA, OrdersB>>), LoopPages(<<OrdersD>>, None)}
  /\ mongoUri = FALSE
  /\ InitServer

NextLive ==
  \/ StartReport("r1", SysInstant, SysInstant, None, None)
  \/ StartSnapshot("r1", None)
  \/ \E k \in SysRespKinds : InvResponse("r1", k)
  \/ \E k \in SysRespKinds : OrdResponse("r1", k)

SpecLive ==
  /\ InitLive /\ [][NextLive]_vars
  /\ WF_vars(\E k \in SysRespKinds : InvResponse("r1", k))
  /\ WF_vars(\E k \in SysRespKinds : OrdResponse("r1", k))

-----------------------------------------------------------------------------
(* Properties.                                                             *)

Resp(p) == req[p].response[1]
Answered(p) == req[p].pc = "done" /\ req[p].response # None

\* The variants a sequence of product pages holds, in page order, and those
\* of them whose inventory item reports tracked = true.
PageVariants(page) == Concat([i \in DOMAIN page.edges |-> page.edges[i].variants])
VariantsOf(pages) == Concat([k \in DOMAIN pages |-> PageVariants(pages[k])])
ReportsTracked(v) == v.inventoryItem # None /\ v.inventoryItem[1].tracked = Some(TRUE)
TrackedOf(pages) == SelectSeq(VariantsOf(pages), ReportsTracked)

\* The line items a sequence of order pages holds, in page order.
PageLines(page) == Concat([i \in DOMAIN page.edges |-> page.edges[i].lineItems])
LinesOf(pages) == Concat([k \in DOMAIN pages |-> PageLines(pages[k])])

\* The cursor protocol of one fetch, from its log of requests sent, pages
\* received and response kinds.
Threaded(f) ==
  /\ f.st # "idle" => Len(f.sent) >= 1 /\ f.sent[1] = None
  /\ Len(f.sent) <= Len(f.kinds) + 1
  /\ \A k \in 1..(Len(f.sent) - 1) :
       k <= Len(f.got) /\ f.sent[k + 1] = f.got[k].pageInfo.endCursor
  /\ \A k \in DOMAIN f.got : f.got[k].pageInfo.hasNextPage <=> k < Len(f.sent)
  /\ f.st = "done" => Len(f.sent) = Len(f.got)

ServedInOrder(f, remote) ==
  /\ \A k \in DOMAIN f.got : k \in DOMAIN remote /\ f.got[k] = remote[k]
  /\ f.st = "done" => f.got = remote

(* C1: in both fetches the first request carries a null cursor, request     *)
(* k+1 is sent only after response k and carries its endCursor, the pages   *)
(* are applied once each in served order, the fetch stops right after the   *)
(* first page without a next page, and so the result of a completed fetch   *)
(* reflects every tracked variant (every line item) of the remote's pages   *)
(* once.                                                                    *)
C1_Pagination ==
  LET i == inv["r1"]
      o == ord["r1"]
  IN  /\ Threaded(i) /\ Threaded(o)
      /\ ServedInOrder(i, catalog) /\ ServedInOrder(o, orders)
      /\ i.rows = Concat([k \in DOMAIN i.got |-> PageRows(i.got[k].edges)])
      /\ o.byVariant = FoldLines(<<>>, Concat([k \in DOMAIN o.got |-> AllLines(o.got[k].edges)]))
      /\ i.st = "done" =>
           /\ Len(i.rows) = Len(TrackedOf(catalog))
           /\ \A n \in DOMAIN i.rows : i.rows[n].variantId = TrackedOf(catalog)[n].id
      /\ o.st = "done" =>
           SumSeq([n \in DOMAIN o.byVariant |-> o.byVariant[n][2]])
             = SumSeq([n \in DOMAIN LinesOf(orders) |->
                         IF LineKey(LinesOf(orders)[n]) = None THEN 0
                         ELSE NullishNum(LinesOf(orders)[n].quantity, 0)])

C1_Witness ==
  /\ inv["r1"].st = "done" /\ Len(inv["r1"].got) = 2 /\ Len(inv["r1"].rows) >= 3
  /\ ord["r1"].st = "done" /\ Len(ord["r1"].got) = 2 /\ Len(ord["r1"].byVariant) >= 3

(* C2: once a page request of a fetch ends in anything but data, the fetch  *)
(* has failed, that response is its last event (no further request, the     *)
(* failed one not sent again), and the caller has answered with an error    *)
(* message and without rows, count or sample; no snapshot file holds a      *)
(* partial scan.                                                            *)
C2_Fetch(f) ==
  (\E k \in DOMAIN f.kinds : f.kinds[k] # "data") =>
    /\ f.st = "failed"
    /\ Len(f.sent) = Len(f.kinds)
    /\ \A k \in 1..(Len(f.kinds) - 1) : f.kinds[k] = "data"
    /\ f.error # ""
    /\ Answered("r1")
    /\ ~Resp("r1").ok /\ Resp("r1").status = 500
    /\ Resp("r1").error \in {inv["r1"].error, ord["r1"].error} \ {""}
    /\ Resp("r1").rows = None /\ Resp("r1").count = None /\ Resp("r1").sample = <<>>

C2_FailedFetchIsFatal ==
  /\ C2_Fetch(inv["r1"])
  /\ C2_Fetch(ord["r1"])
  /\ \A f \in DOMAIN files :
       Len(files[f]) = Cardinality({ToStr(TrackedOf(catalog)[n].id) : n \in DOMAIN TrackedOf(catalog)})

C2_Witness ==
  /\ inv["r1"].st = "failed" /\ Len(inv["r1"].got) = 1 /\ Len(inv["r1"].rows) >= 1
  /\ inv["r1"].kinds = <<"data", "errors">>
  /\ ord["r1"].st = "done"
  /\ Answered("r1") /\ ~Resp("r1").ok

\* The mapping a report resolves for a label from the stores as they are:
\* the indexed store when configured and holding the label, else the file.
Resolved(label) ==
  LET fromMongo == IF mongoUri THEN FromMongo(invCol, label) ELSE None
  IN  IF fromMongo # None THEN fromMongo ELSE FromFile(files, label)

SnapshotAnswered(p) == req[p].op = "snapshot" /\ Answered(p) /\ Resp(p).ok

(* C3: after a successful createSnapshot(L) the mapping a report resolves   *)
(* for L holds exactly the variantIds and quantities that call captured;    *)
(* no entry of an earlier createSnapshot(L) survives.                       *)
C3_OverwritesWithoutMerge ==
  SnapshotAnswered("r1") =>
    /\ Resolved(req["r1"].label[1]) # None
    /\ Range(Resolved(req["r1"].label[1])[1]) = Range(ObjectFromEntries(req["r1"].snapMap))

ReportAnswered(p) == req[p].op = "report" /\ Answered(p)
FetchesDone(p) == inv[p].st = "done" /\ ord[p].st = "done"
LabelGiven(p) == req[p].label # None /\ req[p].label # Some("")
NeverCreated(label) ==
  MongoFind(invCol, label) = {} /\ snapshotPath(label) \notin DOMAIN files

(* C4: a report whose startSnapshotLabel has no document in the indexed     *)
(* store and no file, and whose fetches succeeded, is answered 200 ok:true  *)
(* with one row per tracked variant received and starting_inventory_qty     *)
(* null in every row.                                                       *)
C4_MissingSnapshotGivesNull ==
  ReportAnswered("r1") /\ FetchesDone("r1") /\ LabelGiven("r1")
    /\ NeverCreated(req["r1"].label[1]) =>
      /\ Resp("r1").ok /\ Resp("r1").status = 200
      /\ Resp("r1").startSnapshot = None
      /\ Resp("r1").rows = Some(Len(TrackedOf(inv["r1"].got)))
      /\ Len(Resp("r1").sample) = Len(TrackedOf(inv["r1"].got))
      /\ \A i \in DOMAIN Resp("r1").sample :
           Resp("r1").sample[i].starting_inventory_qty = None

C4_Witness ==
  /\ ReportAnswered("r1") /\ FetchesDone("r1") /\ Resp("r1").ok
  /\ req["r1"].label = Some("2024-05-31")
  /\ mongoUri /\ mongoDb /\ DOMAIN invCol # {} /\ DOMAIN files # {}
  /\ NeverCreated("2024-05-31")
  /\ Len(Resp("r1").sample) >= 2

ReportOk(p) == ReportAnswered(p) /\ Resp(p).ok

(* C5: the rows of a report are one per VariantRecord of the catalog fetch, *)
(* in the fetch's order, row i derived from record i, whatever the sales    *)
(* map holds and whether the snapshot is null, empty or populated; the two  *)
(* export files carry as many rows.                                         *)
C5_JoinComplete ==
  ReportOk("r1") =>
    LET rows == Resp("r1").sample
        recs == inv["r1"].rows
    IN  /\ Resp("r1").rows = Some(Len(recs))
        /\ Len(rows) = Len(recs)
        /\ \A i \in DOMAIN rows :
             /\ rows[i].vendor = recs[i].productVendor
             /\ rows[i].product_title = recs[i].productTitle
             /\ rows[i].product_variant_sku = recs[i].variantSku
             /\ rows[i].unit_cost = recs[i].unitCost
             /\ rows[i].ending_inventory_qty = recs[i].endingQty
        /\ \A b \in DOMAIN exports :
             Len(exports[b].csv.lines) = Len(recs) /\ Len(exports[b].xml) = Len(recs)

C5_Witness ==
  /\ ReportOk("r1") /\ Len(Resp("r1").sample) >= 2
  /\ Resp("r1").startSnapshot # None /\ Resp("r1").startSnapshot # Some(<<>>)
  /\ \E i \in DOMAIN Resp("r1").sample : Resp("r1").sample[i].units_sold = 0
  /\ \E i \in DOMAIN Resp("r1").sample : Resp("r1").sample[i].units_sold > 0
  /\ \E i \in DOMAIN Resp("r1").sample : Resp("r1").sample[i].starting_inventory_qty = None

(* C6: in every report row units_sold is a natural number, and it is 0 for  *)
(* a record whose join key (variantId, else "SKU:"+sku) is not a key of the *)
(* sales aggregate or which has neither a variantId nor a sku.              *)
C6_SalesZeroDefault ==
  ReportOk("r1") =>
    \A i \in DOMAIN Resp("r1").sample :
      LET r == inv["r1"].rows[i]
          key == IF r.variantId # None THEN r.variantId
                 ELSE IF r.variantSku # None THEN Some("SKU:" \o r.variantSku[1])
                 ELSE None
      IN  /\ Resp("r1").sample[i].units_sold \in Nat
          /\ (key = None \/ key[1] \notin MapKeys(ord["r1"].byVariant))
               => Resp("r1").sample[i].units_sold = 0

C6_Witness ==
  /\ ReportOk("r1")
  /\ ord["r1"].byVariant # <<>>
  /\ \E i \in DOMAIN Resp("r1").sample :
       /\ inv["r1"].rows[i].variantId # None
       /\ inv["r1"].rows[i].variantId[1] \notin MapKeys(ord["r1"].byVariant)
       /\ Resp("r1").sample[i].units_sold = 0
  /\ \E i \in DOMAIN Resp("r1").sample : Resp("r1").sample[i].units_sold > 0

\* The quantity a line item carries, and the total over a sequence of them.
LineQty(li) == IF li.quantity = None THEN 0 ELSE li.quantity[1]
TotalQty(lines) == SumSeq([n \in DOMAIN lines |-> LineQty(lines[n])])

\* The line items that name a variant, and those that name only a sku.
OfVariant(lines, id) ==
  SelectSeq(lines, LAMBDA li : li.variant # None /\ li.variant[1].id = id)
OfSkuOnly(lines, sku) ==
  SelectSeq(lines, LAMBDA li : li.variant = None /\ li.sku = Some(sku))

\* The sets of rows whose join keys are pairwise distinct.
DistinctKeyed(recs) ==
  {S \in SUBSET DOMAIN recs :
     \A i, j \in S : i # j => RowKey(recs[i]) # RowKey(recs[j])}

(* C8: each line item is counted under one key only, its variant id when    *)
(* it has one: the aggregate's total is the total of the line items that    *)
(* have a key; a row with a variantId shows the quantity of the line items  *)
(* naming that variant and nothing of those that name only its sku; and     *)
(* over any rows with pairwise distinct join keys units_sold sums to no     *)
(* more than the total quantity of all line items.                          *)
C8_NoDoubleCount ==
  ReportOk("r1") =>
    LET rows == Resp("r1").sample
        recs == inv["r1"].rows
        lines == LinesOf(ord["r1"].got)
        agg == ord["r1"].byVariant
    IN  /\ SumSeq([n \in DOMAIN agg |-> agg[n][2]]) <= TotalQty(lines)
        /\ \A n \in DOMAIN lines :
             lines[n].sku # None /\ lines[n].sku # Some("") =>
               OrNum(MapGet(agg, "SKU:" \o lines[n].sku[1]), 0)
                 = TotalQty(OfSkuOnly(lines, lines[n].sku[1]))
        /\ \A i \in DOMAIN rows :
             recs[i].variantId # None =>
               rows[i].units_sold = TotalQty(OfVariant(lines, recs[i].variantId[1]))
        /\ \A S \in DistinctKeyed(recs) :
             SumSeq([n \in 1..Len(rows) |-> IF n \in S THEN rows[n].units_sold ELSE 0])
               <= TotalQty(lines)

C8_Witness ==
  /\ ReportOk("r1")
  /\ \E i \in DOMAIN Resp("r1").sample :
       LET r == inv["r1"].rows[i]
           lines == LinesOf(ord["r1"].got)
       IN  /\ r.variantId # None /\ r.variantSku # None
           /\ TotalQty(OfVariant(lines, r.variantId[1])) > 0
           /\ TotalQty(OfSkuOnly(lines, r.variantSku[1])) > 0
           /\ Resp("r1").sample[i].units_sold = TotalQty(OfVariant(lines, r.variantId[1]))

\* The join key a line item resolves to: its variant's id, else "SKU:"+sku,
\* else none.
ResolvesTo(li) ==
  IF li.variant # None THEN Some(li.variant[1].id)
  ELSE IF li.sku # None /\ li.sku # Some("") THEN Some("SKU:" \o li.sku[1])
  ELSE None
Resolving(lines, key) == SelectSeq(lines, LAMBDA li : ResolvesTo(li) = Some(key))

(* C7: the aggregate a completed fetchUnitsSold returns has one entry per   *)
(* join key some line item of some order on some page resolves to (variant  *)
(* id if the variant is present, else "SKU:"+sku if a sku is present), its  *)
(* value the sum of those line items' quantities with a missing quantity    *)
(* as 0; a line item with neither adds to no entry.                         *)
C7_SalesAggregate ==
  ord["r1"].st = "done" =>
    LET lines == LinesOf(orders)
        agg == ord["r1"].byVariant
    IN  /\ MapKeys(agg) = {ResolvesTo(lines[n])[1] :
                             n \in {m \in DOMAIN lines : ResolvesTo(lines[m]) # None}}
        /\ \A n \in DOMAIN agg :
             /\ agg[n][2] = TotalQty(Resolving(lines, agg[n][1]))
             /\ \A m \in DOMAIN agg : agg[m][1] = agg[n][1] => m = n

C7_Witness ==
  /\ ord["r1"].st = "done" /\ Len(ord["r1"].got) = 2
  /\ MapGet(ord["r1"].byVariant, "gid1") = Some(4)
  /\ MapGet(ord["r1"].byVariant, "SKU:A") = Some(3)
  /\ \E n \in DOMAIN LinesOf(orders) : ResolvesTo(LinesOf(orders)[n]) = None
  /\ \E n \in DOMAIN LinesOf(orders) :
       LinesOf(orders)[n].quantity = None /\ ResolvesTo(LinesOf(orders)[n]) # None

\* The quantity named "available" at a level, 0 when the level has none or
\* its quantity is null.
AvailableAt(level) ==
  LET listed == IF level.node.quantities = None THEN <<>> ELSE level.node.quantities[1]
      named == SelectSeq(listed, LAMBDA q : q.name = "available")
  IN  IF named = <<>> \/ named[1].quantity = None THEN 0 ELSE named[1].quantity[1]

LevelsOf(v) ==
  IF v.inventoryItem[1].inventoryLevels = None THEN <<>>
  ELSE v.inventoryItem[1].inventoryLevels[1]

AvailableOf(v) ==
  LET levels == LevelsOf(v)
  IN  SumSeq([n \in DOMAIN levels |-> AvailableAt(levels[n])])

(* C9: the endingQty of every record of the catalog fetch is the sum, over  *)
(* the inventory levels returned for its variant, of the quantity named     *)
(* "available" (0 for a level without one or with a null quantity, 0 for a  *)
(* variant without levels); levels with available 3, 5 and 0 give 8.        *)
C9_EndingQty ==
  LET got == TrackedOf(inv["r1"].got)
  IN  /\ Len(inv["r1"].rows) = Len(got)
      /\ \A n \in DOMAIN got : inv["r1"].rows[n].endingQty = AvailableOf(got[n])

C9_Witness ==
  /\ inv["r1"].st = "done"
  /\ \E n \in DOMAIN inv["r1"].rows :
       LET levels == LevelsOf(TrackedOf(inv["r1"].got)[n])
       IN  /\ [k \in DOMAIN levels |-> AvailableAt(levels[k])] = <<3, 5, 0>>
           /\ inv["r1"].rows[n].endingQty = 8
  /\ \E n \in DOMAIN inv["r1"].rows :
       LevelsOf(TrackedOf(inv["r1"].got)[n]) = <<>> /\ inv["r1"].rows[n].endingQty = 0

\* The ids of the variants of the sample catalogs that do not report
\* tracked = true, as snapshot keys.
UntrackedKeys ==
  UNION {{ToStr(VariantsOf(c)[n].id) :
            n \in {m \in DOMAIN VariantsOf(c) : ~ReportsTracked(VariantsOf(c)[m])}}
         : c \in SysCatalogs}

(* C10: the records of a catalog fetch, and so the rows of a report, are    *)
(* those of the variants received that report tracked = true, one each; the *)
(* map a snapshot request captures has their ids as its keys and no other;  *)
(* and no snapshot file or snapshot document ever carries the id of a       *)
(* variant that is untracked, sold or not.                                  *)
C10_UntrackedExcluded ==
  LET tracked == TrackedOf(inv["r1"].got)
      recs == inv["r1"].rows
  IN  /\ Len(recs) = Len(tracked)
      /\ \A n \in DOMAIN recs :
           recs[n].variantId = tracked[n].id /\ recs[n].variantSku = tracked[n].sku
      /\ ReportOk("r1") =>
           /\ Len(Resp("r1").sample) = Len(tracked)
           /\ \A n \in DOMAIN Resp("r1").sample :
                Resp("r1").sample[n].product_variant_sku = tracked[n].sku
      /\ req["r1"].op = "snapshot" /\ inv["r1"].st = "done" =>
           MapKeys(req["r1"].snapMap) = {tracked[n].id : n \in DOMAIN tracked}
      /\ \A f \in DOMAIN files : \A n \in DOMAIN files[f] :
           files[f][n].name \notin UntrackedKeys
      /\ \A d \in DOMAIN invCol : ToStr(invCol[d].variantId) \notin UntrackedKeys

C10_Witness ==
  /\ ReportOk("r1")
  /\ MapGet(ord["r1"].byVariant, "gid3") = Some(4)
  /\ \E n \in DOMAIN VariantsOf(inv["r1"].got) :
       VariantsOf(inv["r1"].got)[n].id = Some("gid3")
  /\ Len(Resp("r1").sample) = 2
  /\ DOMAIN files # {} /\ DOMAIN invCol # {}

\* A createSnapshot call of request p returns successfully in this step.
SnapshotReturns(p) ==
  /\ req[p].pc # "done"
  /\ req'[p].op = "snapshot" /\ req'[p].pc = "done" /\ req'[p].response[1].ok

(* C11: when createSnapshot returns for a label for which the previous call *)
(* to return scanned the same catalog pages, the file of the label (keys,   *)
(* quantities and key order), the set of the label's rows in the indexed    *)
(* store and the count returned are what they were after that previous      *)
(* call.                                                                    *)
C11_Idempotent ==
  [][ (/\ SnapshotReturns("r1")
       /\ lastSnap # None
       /\ lastSnap[1].label = req'["r1"].label[1]
       /\ lastSnap[1].scan = inv'["r1"].got)
      => /\ files'[snapshotPath(lastSnap[1].label)] = lastSnap[1].file
         /\ MongoFind(invCol', lastSnap[1].label) = lastSnap[1].docs
         /\ req'["r1"].response[1].count = lastSnap[1].count ]_vars

C11_Witness ==
  /\ lastSnap # None /\ lastSnap[1].times = 2
  /\ mongoUri /\ Cardinality(lastSnap[1].docs) >= 2 /\ Len(lastSnap[1].file) >= 2
  /\ SnapshotAnswered("r1")

\* The report request of slot p lacks since or until.
LacksWindow(r) == r.op = "report" /\ (Blank(r.since) \/ Blank(r.until))

(* C12: a report request without since or until (absent or empty) is        *)
(* answered ok:false at once: no catalog or orders request is issued, no    *)
(* connection to the indexed store is made, no store is changed and no      *)
(* export file is written by it.                                            *)
C12_MissingWindowRejected ==
  [][ LacksWindow(req'["r1"]) =>
        /\ req'["r1"].pc = "done"
        /\ ~req'["r1"].response[1].ok
        /\ req'["r1"].response[1].status = 400
        /\ req'["r1"].response[1].error # ""
        /\ inv'["r1"].sent = <<>> /\ ord'["r1"].sent = <<>>
        /\ inv'["r1"].st = "idle" /\ ord'["r1"].st = "idle"
        /\ mongoClient' = mongoClient /\ mongoDb' = mongoDb
        /\ <<files', exports', invCol', metaCol'>> = <<files, exports, invCol, metaCol>>
    ]_vars

C12_Witness ==
  /\ LacksWindow(req["r1"]) /\ req["r1"].until = EmptyInstant
  /\ Answered("r1") /\ Resp("r1").status = 400
  /\ req["r1"].label = Some(labelForTodayTZ)
  /\ mongoUri /\ DOMAIN invCol # {} /\ DOMAIN files # {}

\* The report handler of slot p is past Promise.all: at the snapshot lookup
\* or at its ok:true response.
PastFetches(r) ==
  r.op = "report" /\ (r.pc \in {"connect", "index", "find"}
                        \/ (r.pc = "done" /\ r.response[1].ok))

(* C13: the two fetches of a report change no common state (a step that     *)
(* changes the locals of both is the start of a request); the snapshot      *)
(* lookup, the join and the export writes happen only once both fetches     *)
(* have returned; and a report one of whose fetches failed is answered      *)
(* ok:false, with no lookup started and no export file written.             *)
C13_JoinAfterBothFetches ==
  [][ /\ (inv'["r1"] # inv["r1"] /\ ord'["r1"] # ord["r1"]) => Free("r1")
      /\ PastFetches(req'["r1"]) => FetchesDone("r1")'
      /\ exports' # exports =>
           /\ FetchesDone("r1")' /\ ReportOk("r1")'
           /\ DOMAIN exports' \ DOMAIN exports
                \subseteq {Resp("r1")'.csv[1]} \cap {Resp("r1")'.xml[1]}
      /\ (req'["r1"].op = "report"
          /\ (inv'["r1"].st = "failed" \/ ord'["r1"].st = "failed")) =>
           /\ Answered("r1")' /\ ~Resp("r1")'.ok
           /\ exports' = exports /\ mongoClient' = mongoClient
    ]_vars

C13_Witness ==
  /\ req["r1"].op = "report" /\ Answered("r1") /\ ~Resp("r1").ok
  /\ inv["r1"].st = "done" /\ Len(inv["r1"].rows) >= 2
  /\ ord["r1"].st = "failed" /\ Len(ord["r1"].got) = 1
  /\ LabelGiven("r1") /\ mongoUri
  /\ DOMAIN exports = {}

AllData(f) == \A k \in DOMAIN f.kinds : f.kinds[k] = "data"

(* C14: a report is answered ok:true only after every page of both fetches  *)
(* arrived with data, its units_sold then come from the aggregate of all    *)
(* order pages, and it has zero rows only when the whole catalog was read   *)
(* and holds no tracked variant; a report with a failed page request (a     *)
(* non-OK status, an errors list, a body without data, no response) is      *)
(* answered ok:false with a non-empty error.                                *)
C14_NoSilentEmptyReport ==
  /\ ReportOk("r1") =>
       /\ AllData(inv["r1"]) /\ AllData(ord["r1"])
       /\ inv["r1"].got = catalog /\ ord["r1"].got = orders
       /\ Resp("r1").rows = Some(Len(TrackedOf(catalog)))
       /\ Resp("r1").rows = Some(0) => TrackedOf(catalog) = <<>>
       /\ \A i \in DOMAIN Resp("r1").sample :
            Resp("r1").sample[i].units_sold
              = LET key == RowKey(inv["r1"].rows[i])
                IN  IF key = None THEN 0
                    ELSE TotalQty(Resolving(LinesOf(orders), key[1]))
  /\ (req["r1"].op = "report" /\ ~(AllData(inv["r1"]) /\ AllData(ord["r1"]))) =>
       /\ Answered("r1") /\ ~Resp("r1").ok
       /\ Resp("r1").error # "" /\ Resp("r1").rows = None

C14_Witness ==
  /\ ReportOk("r1") /\ Resp("r1").rows = Some(0)
  /\ Len(inv["r1"].got) = 2 /\ Len(ord["r1"].got) = 2 /\ ord["r1"].byVariant # <<>>

\* The rows the indexed store holds for a label, as (key, quantity) pairs,
\* and the members of the label's file.
RowsOfLabel(label) ==
  {<<ToStr(invCol[d].variantId), invCol[d].qty>> :
     d \in {x \in DOMAIN invCol : invCol[x].label = label}}
MembersOfFile(label) ==
  LET text == files[snapshotPath(label)]
  IN  {<<text[n].name, text[n].value>> : n \in DOMAIN text}

(* C15: the snapshot a report resolves for its label is built from the      *)
(* indexed store's rows of the label alone when that store is configured    *)
(* and holds at least one; else it is the content of the label's file when  *)
(* there is one; else it is null.                                           *)
C15_ReadPolicy ==
  ReportOk("r1") /\ LabelGiven("r1") =>
    LET label == req["r1"].label[1]
        snap == Resp("r1").startSnapshot
    IN  IF mongoUri /\ RowsOfLabel(label) # {}
        THEN snap # None /\ Range(snap[1]) = RowsOfLabel(label)
        ELSE IF snapshotPath(label) \in DOMAIN files
        THEN snap # None /\ Range(snap[1]) = MembersOfFile(label)
        ELSE snap = None

\* The file of the label holds an empty scan while the indexed store holds
\* rows for it: the rows decide.
C15_Witness ==
  /\ ReportOk("r1") /\ req["r1"].label = Some(labelForTodayTZ)
  /\ mongoUri /\ RowsOfLabel(labelForTodayTZ) # {}
  /\ snapshotPath(labelForTodayTZ) \in DOMAIN files
  /\ MembersOfFile(labelForTodayTZ) # RowsOfLabel(labelForTodayTZ)
  /\ Range(Resp("r1").startSnapshot[1]) = RowsOfLabel(labelForTodayTZ)

\* The fields a request's column list asks for.
AskedFields(columns) ==
  IF columns # None /\ columns[1] # <<>> THEN columns[1]
  ELSE <<"vendor", "vendor_invoice_date", "vendor_invoice_number", "product_title",
         "product_variant_sku", "unit_cost", "unit_cost_currency",
         "starting_inventory_qty", "ending_inventory_qty", "units_sold">>

CsvAsAsked(file, fields) ==
  /\ file.csv.header = fields
  /\ \A i \in DOMAIN file.csv.lines : Len(file.csv.lines[i]) = Len(fields)

XmlAsAsked(file, fields) ==
  \A i \in DOMAIN file.xml : [j \in DOMAIN file.xml[i] |-> file.xml[i][j][1]] = fields

(* C16: every row of the CSV and of the XML export of a report carries      *)
(* exactly the fields of the request's non-empty column list, in its        *)
(* order, and exactly the ten default fields in the default order when the  *)
(* list is omitted or empty.                                                *)
C16_ColumnProjection ==
  ReportOk("r1") =>
    \A b \in DOMAIN exports :
      /\ CsvAsAsked(exports[b], AskedFields(req["r1"].columns))
      /\ XmlAsAsked(exports[b], AskedFields(req["r1"].columns))

\* A createSnapshot call of request p is under way or has just ended.
Snapshotting(p) == req[p].op = "snapshot" /\ req[p].pc # "idle"
\* The step in which request p, a snapshot request whose catalog fetch
\* succeeded, is answered.
SnapshotEnds(p) ==
  /\ req[p].pc # "done" /\ req'[p].pc = "done"
  /\ req'[p].op = "snapshot" /\ inv'[p].st = "done"

(* C17: every label is accepted: a snapshot request whose catalog fetch     *)
(* succeeded is answered ok:true whatever its label (path separators, "..", *)
(* "|" included); what a report then resolves for that label is exactly the *)
(* map captured; and no step of createSnapshot(L) changes what any other    *)
(* label resolves to.                                                       *)
C17_LabelsRoundTrip ==
  [][\A l \in LabelSamples :
       req'["r1"].label = Some(l) =>
         /\ SnapshotEnds("r1") =>
              /\ req'["r1"].response[1].ok
              /\ Resolved(l)' # None
              /\ Range(Resolved(l)'[1]) = Range(ObjectFromEntries(req'["r1"].snapMap))
         /\ Snapshotting("r1")' =>
              \A other \in LabelSamples \ {l} : Resolved(other)' = Resolved(other)
    ]_vars

\* Both stores hold, for the label, the complete capture of request p and
\* nothing else.
HoldsCaptureOf(p, label) ==
  /\ snapshotPath(label) \in DOMAIN files
  /\ files[snapshotPath(label)] = SnapshotFileText(req[p].snapMap)
  /\ mongoUri =>
       /\ MongoFind(invCol, label) = BulkOps(label, req[p].snapMap)
       /\ label \in DOMAIN metaCol
       /\ metaCol[label].count = MapSize(req[p].snapMap)

(* C18: when two createSnapshot calls for the same label have both          *)
(* completed, the file and the indexed store (rows and count) hold the      *)
(* complete capture of one of the two, the same one in both stores.         *)
C18_LastWriteWins ==
  SnapshotAnswered("r1") /\ SnapshotAnswered("r2") /\ req["r1"].label = req["r2"].label
    => \E p \in Reqs : HoldsCaptureOf(p, req[p].label[1])

\* The step is one in which a store refuses request p: the file write of
\* createSnapshot, or the driver call whose reply the handler awaits.
StoreFails(p) ==
  \/ req[p].pc = "fetch" /\ inv'[p].st = "done" /\ env.disk # "ok"
  \/ req[p].pc \in {"connect", "index", "bulk", "meta"} /\ Down

\* Every entry of the capture of request p is where createSnapshot puts it:
\* the file holds the capture, each of its rows is in the indexed store,
\* the count is the capture's.
CaptureStored(p) ==
  LET label == req[p].label[1]
  IN  /\ snapshotPath(label) \in DOMAIN files
      /\ files[snapshotPath(label)] = SnapshotFileText(req[p].snapMap)
      /\ mongoUri =>
           /\ \A op \in BulkOps(label, req[p].snapMap) :
                op._id \in DOMAIN invCol /\ invCol[op._id] = op
           /\ label \in DOMAIN metaCol
           /\ metaCol[label].count = MapSize(req[p].snapMap)

\* The step leaves alone whatever createSnapshot of request p does not
\* write: files of other paths, rows outside the capture, other counts.
OutsideUntouched(p) ==
  LET label == req'[p].label[1]
      ids == {op._id : op \in BulkOps(label, req'[p].snapMap)}
  IN  /\ DOMAIN files' \ {snapshotPath(label)} = DOMAIN files \ {snapshotPath(label)}
      /\ \A f \in DOMAIN files \ {snapshotPath(label)} : files'[f] = files[f]
      /\ DOMAIN invCol' \ ids = DOMAIN invCol \ ids
      /\ \A id \in DOMAIN invCol \ ids : invCol'[id] = invCol[id]
      /\ DOMAIN metaCol' \ {label} = DOMAIN metaCol \ {label}
      /\ \A l \in DOMAIN metaCol \ {label} : metaCol'[l] = metaCol[l]

(* C19: a createSnapshot call in which the file write, the connect or a     *)
(* database command fails (the bulk write part-way included) is answered    *)
(* ok:false with a message; no step of a call touches anything but the      *)
(* file, the rows and the count of its capture; and when the next call for  *)
(* that label scans the same catalog and succeeds, the file, every row and  *)
(* the count of the capture are stored, which is the state the failed call  *)
(* would have left had nothing failed.                                      *)
C19_FailThenRecover ==
  [][/\ SnapshotEnds("r1") /\ StoreFails("r1") =>
          ~req'["r1"].response[1].ok /\ req'["r1"].response[1].error # ""
     /\ Snapshotting("r1")' => OutsideUntouched("r1")
     /\ SnapshotEnds("r1") /\ lastFail' # None /\ lastFail'[1].recovered =>
          CaptureStored("r1")'
    ]_vars
C19_Witness ==
  /\ SnapshotAnswered("r1")
  /\ lastFail # None /\ lastFail[1].recovered /\ lastFail[1].partly
  /\ lastFail[1].scan = inv["r1"].got
  /\ \E id \in DOMAIN invCol : invCol[id] \notin BulkOps(req["r1"].label[1], req["r1"].snapMap)

\* Neither store yields a snapshot for the label: no row, and no file or a
\* file that is no JSON value.
NoContext(label) ==
  /\ MongoFind(invCol, label) = {}
  /\ \/ snapshotPath(label) \notin DOMAIN files
     \/ ~Parseable(files[snapshotPath(label)])

(* C20: a report request with since and until whose two fetches succeeded   *)
(* is answered ok:true with one row per tracked variant, whatever the       *)
(* snapshot stores hold for its label and whether or not the database       *)
(* server answers; when neither store yields a snapshot of the label,       *)
(* starting_inventory_qty is null in every row.                             *)
C20_ReportSurvivesOutage ==
  ReportAnswered("r1") /\ FetchesDone("r1") =>
    /\ Resp("r1").ok
    /\ Resp("r1").rows = Some(Len(TrackedOf(inv["r1"].got)))
    /\ LabelGiven("r1") /\ NoContext(req["r1"].label[1]) =>
         \A i \in DOMAIN Resp("r1").sample :
           Resp("r1").sample[i].starting_inventory_qty = None

\* Request p is a report past the check of its window.
Fetching(p) == req[p].op = "report" /\ req[p].pc # "idle" /\ ord[p].st # "idle"
\* The windows of two requests agree in the date parts of since and until.
SameDates(p, q) ==
  /\ req[p].since[1].date = req[q].since[1].date
  /\ req[p].until[1].date = req[q].until[1].date

(* C21: the orders filter of a report is created_at:sinceDate..untilDate    *)
(* with paid status and cancelled orders excluded, the dates being the      *)
(* date parts of since and until; two reports whose windows agree in the    *)
(* dates send the same filter whatever their times of day, and their sales  *)
(* fetches, once complete, return the same aggregate.                       *)
C21_DateOnlyFilter ==
  \A p \in Reqs : Fetching(p) =>
    /\ ord[p].q = "created_at:" \o req[p].since[1].date \o ".." \o req[p].until[1].date
                    \o " financial_status:paid -status:cancelled"
    /\ \A q \in Reqs : Fetching(q) /\ SameDates(p, q) =>
         /\ ord[p].q = ord[q].q
         /\ ord[p].st = "done" /\ ord[q].st = "done" => ord[p].byVariant = ord[q].byVariant
C21_Witness ==
  /\ Fetching("r1") /\ Fetching("r2") /\ SameDates("r1", "r2")
  /\ req["r1"].since # req["r2"].since /\ req["r1"].until # req["r2"].until
  /\ ord["r1"].st = "done" /\ ord["r2"].st = "done"
  /\ ord["r1"].byVariant # <<>>

(* C22: every quantity a snapshot stores, in a file and in the indexed      *)
(* store, is a non-negative integer.                                        *)
C22_QuantitiesNonNegative ==
  /\ \A f \in DOMAIN files : \A n \in DOMAIN files[f] : files[f][n].value \in Nat
  /\ \A id \in DOMAIN invCol : invCol[id].qty \in Nat

\* The distinct variantIds among the tracked variants a fetch received (a
\* missing id is one value).
CapturedIds(p) == {TrackedOf(inv[p].got)[i].id : i \in DOMAIN TrackedOf(inv[p].got)}

(* C23: when createSnapshot(L) has returned, the count it returned and the  *)
(* count recorded for L are the number of distinct variantIds of its        *)
(* capture, and so is the number of entries stored under L in the file and, *)
(* when configured, in the indexed store.                                   *)
C23_CountMatchesStores ==
  SnapshotAnswered("r1") =>
    LET label == req["r1"].label[1]
        n == Cardinality(CapturedIds("r1"))
    IN  /\ Resp("r1").count = Some(n)
        /\ Len(files[snapshotPath(label)]) = n
        /\ mongoUri =>
             /\ metaCol[label].count = n
             /\ Cardinality(MongoFind(invCol, label)) = n

\* The cursors a fetch has sent are all different.
SendsOnce(f) == \A i, j \in DOMAIN f.sent : i # j => f.sent[i] # f.sent[j]

(* C24: every fetch ends, whatever pages the remote serves.  The remote     *)
(* answers a page request by its cursor, and a turn of the loop depends on  *)
(* the answer alone; so a fetch that asks an unchanged remote for a page it *)
(* has asked for before is answered as before and goes round for ever.  A   *)
(* fetch that always ends therefore never sends a cursor twice.             *)
C24_NoOperationHangs ==
  \A p \in Reqs : SendsOnce(inv[p]) /\ SendsOnce(ord[p])

\* The identifier a download request names: the whole text of its :base.
RECURSIVE Identifier(_)
Identifier(name) == IF name = <<>> THEN "" ELSE Head(name).text \o Identifier(Tail(name))
\* The step answers a download request of slot p.
Downloads(p) == req'[p] # req[p] /\ req'[p].op = "download"

(* C25: a download request whose identifier names no export file is         *)
(* answered 404 without content; one whose identifier names an export is    *)
(* answered with the text of that file as the report wrote it, whichever    *)
(* charset is asked for; and the step starts no fetch and leaves exports,   *)
(* snapshots and the remote as they are.                                    *)
C25_DownloadServesStoredFile ==
  [][Downloads("r2") =>
       LET asked == req'["r2"].params[1]
           id == Identifier(asked.name)
           answer == req'["r2"].response[1]
       IN  /\ id \notin DOMAIN exports => answer.status = 404 /\ answer.body = None
           /\ id \in DOMAIN exports =>
                /\ answer.status = 200 /\ answer.body # None
                /\ answer.body[1].text =
                     Some(IF asked.kind = "csv" THEN exports[id].csv ELSE exports[id].xml)
           /\ UNCHANGED <<catalog, orders, invCol, metaCol, files, exports, inv, ord>>
    ]_vars

\* The step is one of a report request of slot p, after its start.
ReportStep(p) ==
  req[p].op = "report" /\ req[p].pc # "done" /\ req'[p].op = "report" /\ req'[p] # req[p]
\* The step is one of a snapshot request of slot p.
SnapshotStep(p) ==
  req[p].op = "snapshot" /\ req[p].pc # "done" /\ req'[p].op = "snapshot"
Stores == <<files, invCol, metaCol>>

(* C26: a step of a report leaves the file records and both collections as  *)
(* they are, and leaves a finished catalog scan and a finished aggregate of  *)
(* its request as they are; the stores change only in steps of a snapshot    *)
(* request; and no step removes a file record, a row or a meta record.       *)
C26_ReportsLeaveSnapshots ==
  [][/\ \A p \in Reqs :
          /\ req'[p].op = "report" /\ req'[p] # req[p] => Stores' = Stores
          /\ ReportStep(p) /\ inv[p].st = "done" => inv'[p] = inv[p]
          /\ ReportStep(p) /\ ord[p].st = "done" => ord'[p] = ord[p]
     /\ Stores' # Stores => \E p \in Reqs : SnapshotStep(p)
     /\ DOMAIN files \subseteq DOMAIN files'
     /\ DOMAIN invCol \subseteq DOMAIN invCol'
     /\ DOMAIN metaCol \subseteq DOMAIN metaCol'
    ]_vars
\* A report given a label is answered with the snapshot of that label while
\* the stores hold it.
C26_Witness ==
  /\ ReportOk("r1") /\ LabelGiven("r1")
  /\ Resp("r1").startSnapshot # None
  /\ Resolved(req["r1"].label[1]) = Resp("r1").startSnapshot

\* The labels snapshot requests carry in the specifications of this module.
SnapshotLabels == LabelSamples \cup {labelForTodayTZ}
\* What the stores hold under a label: the file record, the rows of the
\* indexed store and the meta record with the count.
FileRecord(label) ==
  IF snapshotPath(label) \in DOMAIN files THEN Some(files[snapshotPath(label)]) ELSE None
MetaRecord(label) == IF label \in DOMAIN metaCol THEN Some(metaCol[label]) ELSE None
StoredUnder(label) == <<FileRecord(label), MongoFind(invCol, label), MetaRecord(label)>>

(* C27: no step of createSnapshot(L), whether the call ends in success or   *)
(* in failure, changes the file record, the rows or the meta record stored  *)
(* under a label other than L; and the step in which the catalog fetch of   *)
(* createSnapshot(L) fails changes nothing stored under L either.           *)
C27_OtherLabelsUntouched ==
  [][\A p \in Reqs : \A l \in SnapshotLabels :
       req'[p].op = "snapshot" /\ req'[p].label = Some(l) =>
         /\ \A other \in SnapshotLabels \ {l} : StoredUnder(other)' = StoredUnder(other)
         /\ inv'[p].st = "failed" => StoredUnder(l)' = StoredUnder(l)
    ]_vars

\* The snapshot a report request of slot p is to join: none without a label.
ToJoin(p) == IF LabelGiven(p) THEN Resolved(req[p].label[1]) ELSE None

(* C28: in every row of a successful report starting_inventory_qty is null  *)
(* exactly when no snapshot was resolved, the variant has no variantId, or   *)
(* the snapshot has no entry under that variantId; otherwise it is the       *)
(* quantity of that entry as stored, a stored 0 being reported as 0.         *)
C28_ZeroIsNotAbsent ==
  ReportOk("r1") =>
    LET snap == ToJoin("r1")
        vs == TrackedOf(inv["r1"].got)
        rows == Resp("r1").sample
    IN  /\ Len(rows) = Len(vs)
        /\ \A i \in DOMAIN rows :
             LET q == rows[i].starting_inventory_qty
                 absent == \/ snap = None
                           \/ vs[i].id = None
                           \/ \A j \in DOMAIN snap[1] : snap[1][j][1] # vs[i].id[1]
             IN  /\ q = None <=> absent
                 /\ ~absent => \E j \in DOMAIN snap[1] : snap[1][j] = <<vs[i].id[1], q[1]>>
\* One report with a row whose start is a stored 0 and a row whose variant
\* the snapshot does not hold.
C28_Witness ==
  /\ ReportOk("r1") /\ ToJoin("r1") # None
  /\ \E i \in DOMAIN Resp("r1").sample : Resp("r1").sample[i].starting_inventory_qty = Some(0)
  /\ \E i \in DOMAIN Resp("r1").sample : Resp("r1").sample[i].starting_inventory_qty = None

\* The requests inside getDb: awaiting connect() or createIndex().
Connecting == {p \in Reqs : req[p].pc \in {"connect", "index"}}

(* C29: the process creates at most one database client, and at most one   *)
(* caller of getDb at a time is connecting or creating the index: callers   *)
(* that arrive before the first connect completes share its client.         *)
C29_OneClient ==
  /\ mongoClient <= 1
  /\ Cardinality(Connecting) <= 1

\* The export the links of the answered report of slot p name holds the rows
\* of that report under the columns of its request.
LinksResolve(p) ==
  LET base == Resp(p).csv[1]
      rows == Resp(p).sample
  IN  /\ Resp(p).xml = Some(base)
      /\ base \in DOMAIN exports
      /\ exports[base].csv = CsvText(rows, req[p].columns)
      /\ exports[base].xml = XmlText(rows, req[p].columns)

(* C30: while the answers of successful reports stand, the links of each    *)
(* resolve to the rows and columns of its own request, and two reports       *)
(* never name the same export file, however their steps interleave.          *)
C30_LinksResolveToOwnRows ==
  /\ \A p \in Reqs : ReportOk(p) => LinksResolve(p)
  /\ ReportOk("r1") /\ ReportOk("r2") => Resp("r1").csv # Resp("r2").csv

====
